---- MODULE Spec2Model ----
(***************************************************************************)
(* Credential & Session Guard of the hospital management server:           *)
(* POST /auth/login (authRateLimit + handler), authenticateToken, logout,  *)
(* the two-factor enrolment routes, and the stores they read and write     *)
(* (the users table and the Redis keys); the patient, appointment and      *)
(* registration routes behind it; and the web client's auth slice.         *)
(*                                                                         *)
(* Time is counted in minutes.  A request handler is one atomic step,      *)
(* except in the specifications named Concurrent, where a request proceeds *)
(* from one await to the next in each step.  A request reaches the routes  *)
(* modelled here only after the global express-rate-limit limiter          *)
(* (100 requests / 15 minutes / IP), which is not modelled.                *)
(***************************************************************************)
EXTENDS Integers, Sequences, FiniteSets, TLC

VARIABLES
  users,      \* users table: id -> row
  rateKeys,   \* Redis auth_rate_limit:<ip> keys: ip -> Null or [value, expireAt]
  blacklist,  \* Redis blacklist:<token> keys, each with its expiry time
  sessions,   \* Redis session:<userId>:<token> keys, each with its expiry time
  now,        \* the clock, in minutes
  issued,     \* tokens that login has returned to a client
  revoked,    \* history: tokens for which logout has written a blacklist key
  resp,       \* the request handled by the last step and its response
  appointments, \* opd_appointments table: id -> row
  patients,   \* patients table: id -> row
  calls,      \* requests in flight when requests are handled concurrently
  staff,      \* staff table: id -> row
  client      \* the web client: its auth slice, its stored token, its request in flight

vars == <<users, rateKeys, blacklist, sessions, now, issued, revoked, resp,
          appointments, patients, calls, staff, client>>

(***************************************************************************)
(* Program constants (minutes where they are durations).                   *)
(***************************************************************************)
maxAttempts == 5
lockoutDuration == 30
authMaxAttempts == 10
windowMin == 15
jwtExpiresIn == 1440
sessionTtl == 1440
totpWindow == 1
minPasswordLen == 6
twoFactorTokenLen == 6

(***************************************************************************)
(* Bounds of the model.                                                    *)
(***************************************************************************)
TickStep == 10     \* minutes between two requests of a client
MaxTicks == 3      \* the model observes MaxTicks * TickStep minutes of a day
MaxDays == 1       \* whole days that TickDay may add
MaxTokens == 1     \* clients, each holding the token of its last login
MaxPaces == 10     \* waits of the paced client
MaxLoginAttempts == 6   \* failed logins that the client counts

Day == 24 * 60
Null == "null"
NullTime == 0 - 1
NoUser == "nouser"
JwtSecret == "hms-jwt-secret"

UserIds == {"u1", "u2"}
IPs == {"ip1", "ip2"}
Secrets == {"S1"}

EmailOf(u) == IF u = "u1" THEN "doc@h.com" ELSE "adm@h.com"
RoleOf(u) == IF u = "u1" THEN "doctor" ELSE "admin"
PasswordOf(u) == IF u = "u1" THEN "doctor#1" ELSE "admin#22"
Emails == {EmailOf(u) : u \in UserIds} \cup {"ghost@h.com"}
Passwords == {PasswordOf(u) : u \in UserIds} \cup {"abc"}

(***************************************************************************)
(* Password Hasher: a salted one-way digest; compare succeeds exactly for  *)
(* the password that was hashed.                                           *)
(***************************************************************************)
hashPassword(password) == <<"bcrypt", password>>

verifyPassword(password, hashedPassword) == hashPassword(password) = hashedPassword

(***************************************************************************)
(* TOTP codes.  A submitted code is a string of digits; the model keeps    *)
(* its length and, for a code an authenticator produced, the secret and    *)
(* the time it was computed from.  Verification accepts the codes of the   *)
(* account's secret within the tolerance window around the current time.   *)
(***************************************************************************)
NoCode == [digits |-> 0, secret |-> Null, step |-> 0]
ShortCode == [digits |-> 3, secret |-> Null, step |-> 0]
Totp(secret, t) == [digits |-> twoFactorTokenLen, secret |-> secret, step |-> t]

\* mutant: the code is not checked against the account's secret
verifyTwoFactorToken_AnySecret(token, secret, t) ==
  /\ secret # Null
  /\ token.step >= t - totpWindow
  /\ token.step <= t + totpWindow

verifyTwoFactorToken(token, secret, t) ==
  /\ secret # Null
  /\ token.secret = secret
  /\ token.step >= t - totpWindow
  /\ token.step <= t + totpWindow

(***************************************************************************)
(* JSON Web Tokens: the payload, and who signed it.                        *)
(***************************************************************************)
NoToken == [userId |-> NoUser, role |-> Null, iat |-> 0, exp |-> 0, sig |-> Null]

generateToken(userId, role, t) ==
  [userId |-> userId, role |-> role, iat |-> t, exp |-> t + jwtExpiresIn, sig |-> JwtSecret]

\* jwt.verify: "ok", or the name of the error it throws
jwtVerify(token, t) ==
  IF token.sig # JwtSecret THEN "JsonWebTokenError"
  ELSE IF t >= token.exp THEN "TokenExpiredError"
  ELSE "ok"

\* a token with an altered payload, which the server's signature does not cover
Forge(token) == [token EXCEPT !.sig = "forged", !.role = "admin"]

(***************************************************************************)
(* Redis keys: a key is a record with its expiry time; an expired key is   *)
(* gone.  A rate-limit key that does not exist has value 0.                *)
(***************************************************************************)
NoKey == [value |-> 0, expireAt |-> 0]

Live(keys, t) == {k \in keys : k.expireAt > t}

HasKey(keys, token, t) == \E k \in Live(keys, t) : k.token = token

(***************************************************************************)
(* Lockout Tracker.                                                        *)
(***************************************************************************)
\* mutant: the comparison with the clock is reversed
isLocked_Reversed(user, t) == user.locked_until # NullTime /\ t > user.locked_until

\* mutant: a lock never runs out
isLocked_NeverExpires(user, t) == user.locked_until # NullTime

isLocked(user, t) == user.locked_until # NullTime /\ t < user.locked_until

\* mutant: the account is locked one failure late
handleFailedLogin_OffByOne(us, userId, t) ==
  LET failedAttempts == us[userId].failed_login_attempts + 1 IN
  IF failedAttempts > maxAttempts
  THEN [us EXCEPT ![userId].failed_login_attempts = failedAttempts,
                  ![userId].locked_until = t + lockoutDuration]
  ELSE [us EXCEPT ![userId].failed_login_attempts = failedAttempts]

handleFailedLogin(us, userId, t) ==
  LET failedAttempts == us[userId].failed_login_attempts + 1 IN
  IF failedAttempts >= maxAttempts
  THEN [us EXCEPT ![userId].failed_login_attempts = failedAttempts,
                  ![userId].locked_until = t + lockoutDuration]
  ELSE [us EXCEPT ![userId].failed_login_attempts = failedAttempts]

\* mutant: the counter is not set back to 0
resetFailedAttempts_KeepsCount(us, userId, t) ==
  [us EXCEPT ![userId].locked_until = NullTime,
             ![userId].last_login = t]

\* mutant: the lock expiry is not cleared
resetFailedAttempts_KeepsLock(us, userId, t) ==
  [us EXCEPT ![userId].failed_login_attempts = 0,
             ![userId].last_login = t]

resetFailedAttempts(us, userId, t) ==
  [us EXCEPT ![userId].failed_login_attempts = 0,
             ![userId].locked_until = NullTime,
             ![userId].last_login = t]

(***************************************************************************)
(* authRateLimit: next |-> TRUE when the request is passed on.             *)
(***************************************************************************)
\* mutant: a Redis error rejects the request
authRateLimit_FailClosed(keys, ip, fault, t) ==
  LET current == IF keys[ip].expireAt > t THEN keys[ip].value ELSE 0 IN
  IF fault = "get" THEN [next |-> FALSE, keys |-> keys]
  ELSE IF current # 0 /\ current >= authMaxAttempts THEN [next |-> FALSE, keys |-> keys]
  ELSE IF fault = "multi" THEN [next |-> FALSE, keys |-> keys]
  ELSE [next |-> TRUE,
        keys |-> [keys EXCEPT ![ip] = [value |-> current + 1, expireAt |-> t + windowMin]]]

\* mutant: the ceiling is compared with > instead of >=
authRateLimit_OffByOne(keys, ip, fault, t) ==
  LET current == IF keys[ip].expireAt > t THEN keys[ip].value ELSE 0 IN
  IF fault = "get" THEN [next |-> TRUE, keys |-> keys]
  ELSE IF current # 0 /\ current > authMaxAttempts THEN [next |-> FALSE, keys |-> keys]
  ELSE IF fault = "multi" THEN [next |-> TRUE, keys |-> keys]
  ELSE [next |-> TRUE,
        keys |-> [keys EXCEPT ![ip] = [value |-> current + 1, expireAt |-> t + windowMin]]]

authRateLimit(keys, ip, fault, t) ==
  LET current == IF keys[ip].expireAt > t THEN keys[ip].value ELSE 0 IN
  IF fault = "get" THEN [next |-> TRUE, keys |-> keys]
  ELSE IF current # 0 /\ current >= authMaxAttempts THEN [next |-> FALSE, keys |-> keys]
  ELSE IF fault = "multi" THEN [next |-> TRUE, keys |-> keys]
  ELSE [next |-> TRUE,
        keys |-> [keys EXCEPT ![ip] = [value |-> current + 1, expireAt |-> t + windowMin]]]

(***************************************************************************)
(* Requests and responses.  resp describes the step just taken: the        *)
(* request (req), the status and message sent, the token returned, and     *)
(* whether the middleware chain reached the route handler (next).          *)
(***************************************************************************)
NoReq == [op |-> "none", ip |-> Null, email |-> Null, password |-> Null,
          code |-> NoCode, bearer |-> NoToken, secret |-> Null, fault |-> "none",
          id |-> Null, phone |-> Null, patient_id |-> Null, doctor_id |-> Null,
          appointment_date |-> Null, appointment_time |-> Null, status |-> Null,
          role |-> Null, employee_id |-> Null]

LoginReq(ip, email, password, code, fault) ==
  [NoReq EXCEPT !.op = "login", !.ip = ip, !.email = email, !.password = password,
                !.code = code, !.fault = fault]

BearerReq(op, bearer, fault) == [NoReq EXCEPT !.op = op, !.bearer = bearer, !.fault = fault]

NoBefore == [failed_login_attempts |-> 0, locked_until |-> NullTime]

Reply(req, status, message) ==
  [req |-> req, status |-> status, message |-> message, token |-> NoToken,
   twoFactorRequired |-> FALSE, next |-> FALSE, user |-> NoUser, before |-> NoBefore,
   audit |-> {}, data |-> {}]

\* an audit record (logSecurityEvent, logMedicalEvent) and a response that wrote some
Event(event, userId) ==
  [event |-> event, userId |-> userId, requiredRoles |-> {}, endpoint |-> Null]

Logged(reply, events) == [reply EXCEPT !.audit = events]

\* the response, with the account the request resolved to and its lockout fields before
About(reply, us, userId) ==
  [reply EXCEPT !.user = userId,
                !.before = [failed_login_attempts |-> us[userId].failed_login_attempts,
                            locked_until |-> us[userId].locked_until]]

(***************************************************************************)
(* User.findOne({ where: { email, is_active: true } }) and User.findByPk.  *)
(***************************************************************************)
findOne(us, email) ==
  IF \E u \in DOMAIN us : us[u].email = email /\ us[u].is_active
  THEN CHOOSE u \in DOMAIN us : us[u].email = email /\ us[u].is_active
  ELSE NoUser

\* a row of the users table that does not exist yet
NoAccount ==
  [email |-> Null, password_hash |-> <<>>, role |-> Null, is_active |-> FALSE,
   last_login |-> NullTime, failed_login_attempts |-> 0, locked_until |-> NullTime,
   two_factor_enabled |-> FALSE, two_factor_secret |-> Null]

findByPk(us, userId) ==
  IF userId \in DOMAIN us /\ us[userId] # NoAccount THEN userId ELSE NoUser

(***************************************************************************)
(* The handler of POST /auth/login, run after authRateLimit passed the     *)
(* request on: the response, the users table and the session keys after.   *)
(***************************************************************************)
createSession(keys, token, t) ==
  {k \in keys : k.token # token} \cup {[token |-> token, expireAt |-> t + sessionTtl]}

validLoginBody(password, twoFactorToken) ==
  /\ Len(password) >= minPasswordLen
  /\ (twoFactorToken = NoCode \/ twoFactorToken.digits = twoFactorTokenLen)

\* mutant: an attempt on a locked account is counted as a failed login
loginHandler_CountsWhileLocked(req, us, sess, t) ==
  LET same == [users |-> us, sessions |-> sess]
      userId == findOne(us, req.email)
      R(status, message) == About(Reply(req, status, message), us, userId)
  IN
  IF ~validLoginBody(req.password, req.code)
  THEN [resp |-> Reply(req, 400, "Validation failed")] @@ same
  ELSE IF userId = NoUser
  THEN [resp |-> Logged(Reply(req, 401, "Invalid credentials"),
                        {Event("login_attempt_invalid_user", NoUser)})] @@ same
  ELSE IF isLocked(us[userId], t)
  THEN [resp |-> R(423, "Account locked"),
        users |-> handleFailedLogin(us, userId, t), sessions |-> sess]
  ELSE IF ~verifyPassword(req.password, us[userId].password_hash)
  THEN LET failed == handleFailedLogin(us, userId, t) IN
       [resp |-> Logged(R(401, "Invalid credentials"),
                        {Event("login_attempt_invalid_password", userId)}
                          \cup IF failed[userId].locked_until # us[userId].locked_until
                               THEN {Event("account_locked", userId)} ELSE {}),
        users |-> failed, sessions |-> sess]
  ELSE IF us[userId].two_factor_enabled /\ req.code = NoCode
  THEN [resp |-> [R(200, "Two-factor authentication required")
                    EXCEPT !.twoFactorRequired = TRUE]] @@ same
  ELSE IF us[userId].two_factor_enabled
          /\ ~verifyTwoFactorToken(req.code, us[userId].two_factor_secret, t)
  THEN [resp |-> Logged(R(401, "Invalid two-factor authentication code"),
                        {Event("login_attempt_invalid_2fa", userId)})] @@ same
  ELSE LET token == generateToken(userId, us[userId].role, t)
           reset == resetFailedAttempts(us, userId, t)
       IN IF req.fault = "setex"
          THEN [resp |-> R(500, "Login failed"), users |-> reset, sessions |-> sess]
          ELSE [resp |-> Logged([R(200, "Login successful") EXCEPT !.token = token],
                                {Event("login_successful", userId)}),
                users |-> reset, sessions |-> createSession(sess, token, t)]

loginHandler(req, us, sess, t) ==
  LET same == [users |-> us, sessions |-> sess]
      userId == findOne(us, req.email)
      R(status, message) == About(Reply(req, status, message), us, userId)
  IN
  IF ~validLoginBody(req.password, req.code)
  THEN [resp |-> Reply(req, 400, "Validation failed")] @@ same
  ELSE IF userId = NoUser
  THEN [resp |-> Logged(Reply(req, 401, "Invalid credentials"),
                        {Event("login_attempt_invalid_user", NoUser)})] @@ same
  ELSE IF isLocked(us[userId], t)
  THEN [resp |-> R(423, "Account locked")] @@ same
  ELSE IF ~verifyPassword(req.password, us[userId].password_hash)
  THEN LET failed == handleFailedLogin(us, userId, t) IN
       [resp |-> Logged(R(401, "Invalid credentials"),
                        {Event("login_attempt_invalid_password", userId)}
                          \cup IF failed[userId].locked_until # us[userId].locked_until
                               THEN {Event("account_locked", userId)} ELSE {}),
        users |-> failed, sessions |-> sess]
  ELSE IF us[userId].two_factor_enabled /\ req.code = NoCode
  THEN [resp |-> [R(200, "Two-factor authentication required")
                    EXCEPT !.twoFactorRequired = TRUE]] @@ same
  ELSE IF us[userId].two_factor_enabled
          /\ ~verifyTwoFactorToken(req.code, us[userId].two_factor_secret, t)
  THEN [resp |-> Logged(R(401, "Invalid two-factor authentication code"),
                        {Event("login_attempt_invalid_2fa", userId)})] @@ same
  ELSE LET token == generateToken(userId, us[userId].role, t)
           reset == resetFailedAttempts(us, userId, t)
       IN IF req.fault = "setex"
          THEN [resp |-> R(500, "Login failed"), users |-> reset, sessions |-> sess]
          ELSE [resp |-> Logged([R(200, "Login successful") EXCEPT !.token = token],
                                {Event("login_successful", userId)}),
                users |-> reset, sessions |-> createSession(sess, token, t)]

(***************************************************************************)
(* The tokens that clients hold after a login returned token: there are    *)
(* MaxTokens clients, each keeps the token of its last login, so a new     *)
(* token replaces one held before when every client holds one.             *)
(***************************************************************************)
Keep(held, token) ==
  IF token = NoToken \/ token \in held THEN {held}
  ELSE IF Cardinality(held) < MaxTokens THEN {held \cup {token}}
  ELSE {(held \ {old}) \cup {token} : old \in held}

(***************************************************************************)
(* POST /auth/login: authRateLimit, then the handler.                      *)
(***************************************************************************)
\* mutant: a request that the rate limiter turns away is still looked up and counted
\* as a failed login of the account
Login_RateLimitedCounts(ip, email, password, twoFactorToken, fault) ==
  LET req == LoginReq(ip, email, password, twoFactorToken, fault)
      rl == authRateLimit(rateKeys, ip, fault, now)
      userId == findOne(users, email)
      out == IF rl.next
             THEN loginHandler(req, users, sessions, now)
             ELSE [resp |-> Reply(req, 429, "Too many authentication attempts"),
                   users |-> IF userId = NoUser THEN users
                             ELSE handleFailedLogin(users, userId, now),
                   sessions |-> sessions]
  IN
  /\ rateKeys' = rl.keys
  /\ users' = out.users
  /\ sessions' = out.sessions
  /\ resp' = out.resp
  /\ \E kept \in Keep(issued, out.resp.token) :
       /\ issued' = kept
       /\ revoked' = revoked \cap kept
  /\ UNCHANGED <<blacklist, now, appointments, patients, calls, staff, client>>

Login(ip, email, password, twoFactorToken, fault) ==
  LET req == LoginReq(ip, email, password, twoFactorToken, fault)
      rl == authRateLimit(rateKeys, ip, fault, now)
      out == IF rl.next
             THEN loginHandler(req, users, sessions, now)
             ELSE [resp |-> Reply(req, 429, "Too many authentication attempts"),
                   users |-> users, sessions |-> sessions]
  IN
  /\ rateKeys' = rl.keys
  /\ users' = out.users
  /\ sessions' = out.sessions
  /\ resp' = out.resp
  /\ \E kept \in Keep(issued, out.resp.token) :
       /\ issued' = kept
       /\ revoked' = revoked \cap kept
  /\ UNCHANGED <<blacklist, now, appointments, patients, calls, staff, client>>

(***************************************************************************)
(* authenticateToken: the rejection it sends, or next |-> TRUE with the    *)
(* user it attached to the request.                                        *)
(***************************************************************************)
authenticateToken(req, us, black, t) ==
  LET token == req.bearer
      userId == findByPk(us, token.userId)
  IN
  IF token = NoToken THEN Reply(req, 401, "Access token required")
  ELSE IF req.fault = "get" THEN Reply(req, 500, "Authentication error")
  ELSE IF HasKey(black, token, t) THEN Reply(req, 401, "Token has been invalidated")
  ELSE IF jwtVerify(token, t) = "TokenExpiredError" THEN Reply(req, 401, "Token has expired")
  ELSE IF jwtVerify(token, t) = "JsonWebTokenError" THEN Reply(req, 401, "Invalid token")
  ELSE IF userId = NoUser \/ ~us[userId].is_active
  THEN Reply(req, 401, "User not found or inactive")
  ELSE IF isLocked(us[userId], t)
  THEN About(Reply(req, 423, "Account is temporarily locked"), us, userId)
  ELSE [About(Reply(req, 200, "ok"), us, userId) EXCEPT !.next = TRUE]

\* the bearer tokens a client can present: none, one it was given, or a forgery of one
Bearers == {NoToken} \cup issued \cup {Forge(token) : token \in issued}

(***************************************************************************)
(* GET /auth/me: any route behind authenticateToken that only reads.       *)
(***************************************************************************)
GetMe(bearer, fault) ==
  /\ resp' = authenticateToken(BearerReq("me", bearer, fault), users, blacklist, now)
  /\ UNCHANGED <<users, rateKeys, blacklist, sessions, now, issued, revoked, appointments, patients, calls, staff, client>>

(***************************************************************************)
(* POST /auth/logout: authenticateToken, then logout.                      *)
(***************************************************************************)
\* mutant: the blacklist key lives for a fixed 15 minutes, not the token's remaining life
logout_FixedTtl(auth, black, sess, t) ==
  LET token == auth.req.bearer
      listed == {k \in black : k.token # token}
                  \cup {[token |-> token, expireAt |-> t + windowMin]}
  IN [resp |-> [auth EXCEPT !.message = "Logged out successfully"],
      blacklist |-> listed, sessions |-> {k \in sess : k.token # token}]

\* mutant: the session key is removed but no blacklist key is written
logout_NoBlacklist(auth, black, sess, t) ==
  [resp |-> [auth EXCEPT !.message = "Logged out successfully"],
   blacklist |-> black, sessions |-> {k \in sess : k.token # auth.req.bearer}]

logout(auth, black, sess, t) ==
  LET token == auth.req.bearer
      expiresIn == token.exp - t
      listed == IF expiresIn > 0
                THEN {k \in black : k.token # token}
                       \cup {[token |-> token, expireAt |-> t + expiresIn]}
                ELSE black
  IN
  IF auth.req.fault = "setex" /\ expiresIn > 0
  THEN [resp |-> [auth EXCEPT !.status = 500, !.message = "Logout failed"],
        blacklist |-> black, sessions |-> sess]
  ELSE IF auth.req.fault = "del"
  THEN [resp |-> [auth EXCEPT !.status = 500, !.message = "Logout failed"],
        blacklist |-> listed, sessions |-> sess]
  ELSE [resp |-> Logged([auth EXCEPT !.message = "Logged out successfully"],
                        {Event("user_logout", auth.user)}),
        blacklist |-> listed, sessions |-> {k \in sess : k.token # token}]

Logout(bearer, fault) ==
  LET auth == authenticateToken(BearerReq("logout", bearer, fault), users, blacklist, now)
      out == IF auth.next
             THEN logout(auth, blacklist, sessions, now)
             ELSE [resp |-> auth, blacklist |-> blacklist, sessions |-> sessions]
  IN
  /\ resp' = out.resp
  /\ blacklist' = out.blacklist
  /\ sessions' = out.sessions
  /\ revoked' = IF HasKey(out.blacklist, bearer, now) THEN revoked \cup {bearer} ELSE revoked
  /\ UNCHANGED <<users, rateKeys, now, issued, appointments, patients, calls, staff, client>>

(***************************************************************************)
(* POST /auth/enable-2fa, /auth/verify-2fa-setup, /auth/disable-2fa.       *)
(***************************************************************************)
generateTwoFactorSecret == Secrets

Enable2FA(bearer, secret, fault) ==
  LET auth == authenticateToken([BearerReq("enable-2fa", bearer, fault) EXCEPT !.secret = secret],
                                users, blacklist, now)
      already == auth.next /\ users[auth.user].two_factor_enabled
  IN
  /\ secret \in generateTwoFactorSecret
  /\ resp' = IF already
             THEN [auth EXCEPT !.status = 400,
                               !.message = "Two-factor authentication is already enabled"]
             ELSE IF auth.next
             THEN [auth EXCEPT !.message =
                     "Scan QR code with your authenticator app and verify to enable 2FA"]
             ELSE auth
  /\ users' = IF auth.next /\ ~already
              THEN [users EXCEPT ![auth.user].two_factor_secret = secret]
              ELSE users
  /\ UNCHANGED <<rateKeys, blacklist, sessions, now, issued, revoked, appointments, patients, calls, staff, client>>

Verify2FASetup(bearer, token, fault) ==
  LET auth == authenticateToken([BearerReq("verify-2fa-setup", bearer, fault) EXCEPT !.code = token],
                                users, blacklist, now)
      user == users[auth.user]
  IN
  /\ resp' = IF ~auth.next THEN auth
             ELSE IF token.digits # twoFactorTokenLen
             THEN [auth EXCEPT !.status = 400, !.message = "Validation failed"]
             ELSE IF user.two_factor_secret = Null
             THEN [auth EXCEPT !.status = 400,
                               !.message = "Two-factor authentication setup not initiated"]
             ELSE IF ~verifyTwoFactorToken(token, user.two_factor_secret, now)
             THEN [auth EXCEPT !.status = 401, !.message = "Invalid verification code"]
             ELSE Logged([auth EXCEPT !.message =
                                        "Two-factor authentication enabled successfully"],
                         {Event("2fa_enabled", auth.user)})
  /\ users' = IF /\ auth.next
                 /\ token.digits = twoFactorTokenLen
                 /\ user.two_factor_secret # Null
                 /\ verifyTwoFactorToken(token, user.two_factor_secret, now)
              THEN [users EXCEPT ![auth.user].two_factor_enabled = TRUE]
              ELSE users
  /\ UNCHANGED <<rateKeys, blacklist, sessions, now, issued, revoked, appointments, patients, calls, staff, client>>

Disable2FA(bearer, password, fault) ==
  LET auth == authenticateToken([BearerReq("disable-2fa", bearer, fault) EXCEPT !.password = password],
                                users, blacklist, now)
      valid == /\ auth.next
               /\ password # ""
               /\ verifyPassword(password, users[auth.user].password_hash)
  IN
  /\ resp' = IF auth.next /\ password = ""
             THEN [auth EXCEPT !.status = 400, !.message = "Validation failed"]
             ELSE IF auth.next /\ ~valid
             THEN [auth EXCEPT !.status = 401, !.message = "Invalid password"]
             ELSE IF valid
             THEN Logged([auth EXCEPT !.message =
                                        "Two-factor authentication disabled successfully"],
                         {Event("2fa_disabled", auth.user)})
             ELSE auth
  /\ users' = IF valid
              THEN [users EXCEPT ![auth.user].two_factor_enabled = FALSE,
                                 ![auth.user].two_factor_secret = Null]
              ELSE users
  /\ UNCHANGED <<rateKeys, blacklist, sessions, now, issued, revoked, appointments, patients, calls, staff, client>>

(***************************************************************************)
(* authorize(...roles): runs after authenticateToken put the user on the   *)
(* request; auth is what authenticateToken answered.                       *)
(***************************************************************************)
\* mutant: every authenticated user is let through
authorize_AnyRole(roles, auth, us, endpoint) == auth

authorize(roles, auth, us, endpoint) ==
  IF ~auth.next THEN auth
  ELSE IF auth.user = NoUser
  THEN [auth EXCEPT !.status = 401, !.message = "Authentication required", !.next = FALSE]
  ELSE IF us[auth.user].role \notin roles
  THEN [auth EXCEPT !.status = 403, !.message = "Insufficient permissions", !.next = FALSE,
                    !.audit = {[event |-> "unauthorized_access_attempt",
                                userId |-> auth.user,
                                requiredRoles |-> roles,
                                endpoint |-> endpoint]}]
  ELSE auth

(***************************************************************************)
(* /api/patients: register, update, deactivate.  Each route runs behind    *)
(* authenticateToken and authorize.                                        *)
(***************************************************************************)
PatientIds == {"p1", "p2"}
Phones == {"9000000001", "9000000002"}
BadPhone == "12"

NoPatient == [patient_id |-> 0, phone |-> Null, is_active |-> FALSE]

Stored(table, none) == {id \in DOMAIN table : table[id] # none}

isMobilePhone(phone) == phone \in Phones

\* PAT<year><count + 1>: the number part
generatePatientId(pats) == Cardinality(Stored(pats, NoPatient)) + 1

\* the id the database gives the row that create inserts
NewId(table, none) == CHOOSE id \in DOMAIN table : table[id] = none

ActiveWithPhone(pats, phone) ==
  {id \in Stored(pats, NoPatient) : pats[id].phone = phone /\ pats[id].is_active}

registerPatient(auth, pats) ==
  LET phone == auth.req.phone IN
  IF ~auth.next THEN [resp |-> auth, patients |-> pats]
  ELSE IF ~isMobilePhone(phone)
  THEN [resp |-> [auth EXCEPT !.status = 400, !.message = "Validation failed"],
        patients |-> pats]
  ELSE IF ActiveWithPhone(pats, phone) # {}
  THEN [resp |-> [auth EXCEPT !.status = 409,
                              !.message = "Patient with this phone number already exists"],
        patients |-> pats]
  ELSE [resp |-> Logged([auth EXCEPT !.status = 201,
                                     !.message = "Patient registered successfully"],
                        {Event("patient_registered", auth.user)}),
        patients |-> [pats EXCEPT ![NewId(pats, NoPatient)] =
                        [patient_id |-> generatePatientId(pats), phone |-> phone,
                         is_active |-> TRUE]]]

updatePatient(auth, pats) ==
  LET id == auth.req.id
      phone == auth.req.phone
  IN
  IF ~auth.next THEN [resp |-> auth, patients |-> pats]
  ELSE IF phone # Null /\ ~isMobilePhone(phone)
  THEN [resp |-> [auth EXCEPT !.status = 400, !.message = "Validation failed"],
        patients |-> pats]
  ELSE IF pats[id] = NoPatient \/ ~pats[id].is_active
  THEN [resp |-> [auth EXCEPT !.status = 404, !.message = "Patient not found"],
        patients |-> pats]
  ELSE [resp |-> Logged([auth EXCEPT !.message = "Patient updated successfully"],
                        {Event("patient_updated", auth.user)}),
        patients |-> IF phone = Null THEN pats ELSE [pats EXCEPT ![id].phone = phone]]

deactivatePatient(auth, pats) ==
  LET id == auth.req.id IN
  IF ~auth.next THEN [resp |-> auth, patients |-> pats]
  ELSE IF pats[id] = NoPatient \/ ~pats[id].is_active
  THEN [resp |-> [auth EXCEPT !.status = 404, !.message = "Patient not found"],
        patients |-> pats]
  ELSE [resp |-> Logged([auth EXCEPT !.message = "Patient deactivated successfully"],
                        {Event("patient_deactivated", auth.user)}),
        patients |-> [pats EXCEPT ![id].is_active = FALSE]]

AllStaff == {"admin", "receptionist", "doctor", "nurse"}

\* the request passes authenticateToken, then authorize(roles)
Guarded(req, roles, endpoint) ==
  authorize(roles, authenticateToken(req, users, blacklist, now), users, endpoint)

\* POST /api/patients; registration is possible while the table has a free row
RegisterPatient(bearer, phone, fault) ==
  LET req == [BearerReq("patient-register", bearer, fault) EXCEPT !.phone = phone]
      out == registerPatient(Guarded(req, AllStaff, "/api/patients"), patients)
  IN
  /\ Stored(patients, NoPatient) # PatientIds
  /\ resp' = out.resp
  /\ patients' = out.patients
  /\ UNCHANGED <<users, rateKeys, blacklist, sessions, now, issued, revoked,
                 appointments, calls, staff, client>>

\* PUT /api/patients/:id
UpdatePatient(bearer, id, phone, fault) ==
  LET req == [BearerReq("patient-update", bearer, fault) EXCEPT !.id = id, !.phone = phone]
      out == updatePatient(Guarded(req, AllStaff \ {"nurse"}, "/api/patients/:id"), patients)
  IN
  /\ resp' = out.resp
  /\ patients' = out.patients
  /\ UNCHANGED <<users, rateKeys, blacklist, sessions, now, issued, revoked,
                 appointments, calls, staff, client>>

\* PATCH /api/patients/:id/deactivate
DeactivatePatient(bearer, id, fault) ==
  LET req == [BearerReq("patient-deactivate", bearer, fault) EXCEPT !.id = id]
      out == deactivatePatient(Guarded(req, {"admin"}, "/api/patients/:id/deactivate"),
                               patients)
  IN
  /\ resp' = out.resp
  /\ patients' = out.patients
  /\ UNCHANGED <<users, rateKeys, blacklist, sessions, now, issued, revoked,
                 appointments, calls, staff, client>>

(***************************************************************************)
(* /api/opd/appointments: book, update, change status.                     *)
(***************************************************************************)
AppointmentIds == {"a1", "a2"}
StaffIds == {"d1"}
Dates == {"2026-03-02"}
Times == {"09:00", "10:00"}
BadTime == "9am"
Statuses == {"confirmed", "in_progress", "completed", "cancelled", "no_show"}

NoNumber == [day |-> 0 - 1, seq |-> 0]

\* the staff table: the rows of the seeded staff and one free row
StaffRows == StaffIds \cup {"d2"}

NoStaff == [user_id |-> Null, employee_id |-> Null]

NoAppointment ==
  [appointment_number |-> NoNumber, patient_id |-> Null, doctor_id |-> Null,
   appointment_date |-> Null, appointment_time |-> Null, status |-> Null]

\* OPD<today><count + 1>: the number part, counted over today's appointments
generateAppointmentNumber(apps, t) ==
  LET today == t \div Day IN
  [day |-> today,
   seq |-> Cardinality({id \in DOMAIN apps : apps[id].appointment_number.day = today}) + 1]

\* the appointments that hold a slot: status notIn ['cancelled', 'no_show']
Holding(apps, doctor_id, date, time) ==
  {id \in Stored(apps, NoAppointment) :
     /\ apps[id].doctor_id = doctor_id
     /\ apps[id].appointment_date = date
     /\ apps[id].appointment_time = time
     /\ apps[id].status \notin {"cancelled", "no_show"}}

bookAppointment(auth, apps, pats, t) ==
  LET r == auth.req
      same == [appointments |-> apps]
  IN
  IF ~auth.next THEN [resp |-> auth] @@ same
  ELSE IF r.appointment_time \notin Times
  THEN [resp |-> [auth EXCEPT !.status = 400, !.message = "Validation failed"]] @@ same
  ELSE IF r.patient_id \notin Stored(pats, NoPatient)
  THEN [resp |-> [auth EXCEPT !.status = 404, !.message = "Patient not found"]] @@ same
  ELSE IF r.doctor_id \notin Stored(staff, NoStaff)
  THEN [resp |-> [auth EXCEPT !.status = 404, !.message = "Doctor not found"]] @@ same
  ELSE IF Holding(apps, r.doctor_id, r.appointment_date, r.appointment_time) # {}
  THEN [resp |-> [auth EXCEPT !.status = 409, !.message = "Time slot not available"]] @@ same
  ELSE [resp |-> Logged([auth EXCEPT !.status = 201,
                                     !.message = "Appointment booked successfully"],
                        {Event("opd_appointment_booked", auth.user)}),
        appointments |-> [apps EXCEPT ![NewId(apps, NoAppointment)] =
                            [appointment_number |-> generateAppointmentNumber(apps, t),
                             patient_id |-> r.patient_id, doctor_id |-> r.doctor_id,
                             appointment_date |-> r.appointment_date,
                             appointment_time |-> r.appointment_time,
                             status |-> "scheduled"]]]

updateAppointment(auth, apps) ==
  LET r == auth.req
      same == [appointments |-> apps]
      appointment == apps[r.id]
      newDate == IF r.appointment_date # Null THEN r.appointment_date
                 ELSE appointment.appointment_date
      newTime == IF r.appointment_time # Null THEN r.appointment_time
                 ELSE appointment.appointment_time
  IN
  IF ~auth.next THEN [resp |-> auth] @@ same
  ELSE IF r.appointment_time # Null /\ r.appointment_time \notin Times
  THEN [resp |-> [auth EXCEPT !.status = 400, !.message = "Validation failed"]] @@ same
  ELSE IF appointment = NoAppointment
  THEN [resp |-> [auth EXCEPT !.status = 404, !.message = "Appointment not found"]] @@ same
  ELSE IF appointment.status = "completed"
  THEN [resp |-> [auth EXCEPT !.status = 400,
                              !.message = "Cannot update completed appointment"]] @@ same
  ELSE IF /\ r.appointment_date # Null \/ r.appointment_time # Null
          /\ Holding(apps, appointment.doctor_id, newDate, newTime) \ {r.id} # {}
  THEN [resp |-> [auth EXCEPT !.status = 409, !.message = "Time slot not available"]] @@ same
  ELSE [resp |-> Logged([auth EXCEPT !.message = "Appointment updated successfully"],
                        {Event("opd_appointment_updated", auth.user)}),
        appointments |-> [apps EXCEPT ![r.id].appointment_date = newDate,
                                      ![r.id].appointment_time = newTime]]

setAppointmentStatus(auth, apps) ==
  LET r == auth.req
      same == [appointments |-> apps]
  IN
  IF ~auth.next THEN [resp |-> auth] @@ same
  ELSE IF r.status \notin Statuses
  THEN [resp |-> [auth EXCEPT !.status = 400, !.message = "Validation failed"]] @@ same
  ELSE IF apps[r.id] = NoAppointment
  THEN [resp |-> [auth EXCEPT !.status = 404, !.message = "Appointment not found"]] @@ same
  ELSE [resp |-> Logged([auth EXCEPT !.message = "Appointment status updated successfully"],
                        {Event("opd_appointment_status_changed", auth.user)}),
        appointments |-> [apps EXCEPT ![r.id].status = r.status]]

\* POST /api/opd/appointments; booking is possible while the table has a free row
BookAppointment(bearer, patient_id, doctor_id, date, time, fault) ==
  LET req == [BearerReq("appointment-book", bearer, fault)
                EXCEPT !.patient_id = patient_id, !.doctor_id = doctor_id,
                       !.appointment_date = date, !.appointment_time = time]
      out == bookAppointment(Guarded(req, AllStaff, "/api/opd/appointments"),
                             appointments, patients, now)
  IN
  /\ Stored(appointments, NoAppointment) # AppointmentIds
  /\ resp' = out.resp
  /\ appointments' = out.appointments
  /\ UNCHANGED <<users, rateKeys, blacklist, sessions, now, issued, revoked,
                 patients, calls, staff, client>>

\* PUT /api/opd/appointments/:id
UpdateAppointment(bearer, id, date, time, fault) ==
  LET req == [BearerReq("appointment-update", bearer, fault)
                EXCEPT !.id = id, !.appointment_date = date, !.appointment_time = time]
      out == updateAppointment(Guarded(req, AllStaff \ {"nurse"},
                                       "/api/opd/appointments/:id"), appointments)
  IN
  /\ resp' = out.resp
  /\ appointments' = out.appointments
  /\ UNCHANGED <<users, rateKeys, blacklist, sessions, now, issued, revoked,
                 patients, calls, staff, client>>

\* PATCH /api/opd/appointments/:id/status
SetAppointmentStatus(bearer, id, status, fault) ==
  LET req == [BearerReq("appointment-status", bearer, fault)
                EXCEPT !.id = id, !.status = status]
      out == setAppointmentStatus(Guarded(req, AllStaff,
                                          "/api/opd/appointments/:id/status"), appointments)
  IN
  /\ resp' = out.resp
  /\ appointments' = out.appointments
  /\ UNCHANGED <<users, rateKeys, blacklist, sessions, now, issued, revoked,
                 patients, calls, staff, client>>

(***************************************************************************)
(* POST /auth/login when requests are handled concurrently: a request is   *)
(* a caller that runs from one await to the next in each step.  pc names   *)
(* the await the caller is waiting on.                                     *)
(***************************************************************************)
Callers == {"c1", "c2"}

Idle == [pc |-> "idle", req |-> NoReq, user |-> NoUser, failedAttempts |-> 0,
         token |-> NoToken, appointmentNumber |-> NoNumber]

Pending == Reply(NoReq, 0, "pending")

\* the request arrives; authRateLimit awaits redisClient.get and compares
CallGet(c, ip, email, password, twoFactorToken) ==
  LET req == LoginReq(ip, email, password, twoFactorToken, "none")
      current == IF rateKeys[ip].expireAt > now THEN rateKeys[ip].value ELSE 0
  IN
  /\ calls[c].pc = "idle"
  /\ IF current # 0 /\ current >= authMaxAttempts
     THEN /\ resp' = Reply(req, 429, "Too many authentication attempts")
          /\ calls' = calls
     ELSE /\ resp' = Pending
          /\ calls' = [calls EXCEPT ![c] = [Idle EXCEPT !.pc = "multi", !.req = req]]
  /\ UNCHANGED <<users, rateKeys, blacklist, sessions, now, issued, revoked,
                 appointments, patients, staff, client>>

\* authRateLimit awaits multi().incr(key).expire(key, window).exec(), then next()
CallMulti(c) ==
  LET ip == calls[c].req.ip
      current == IF rateKeys[ip].expireAt > now THEN rateKeys[ip].value ELSE 0
  IN
  /\ calls[c].pc = "multi"
  /\ rateKeys' = [rateKeys EXCEPT ![ip] = [value |-> current + 1,
                                           expireAt |-> now + windowMin]]
  /\ calls' = [calls EXCEPT ![c].pc = "findOne"]
  /\ resp' = Pending
  /\ UNCHANGED <<users, blacklist, sessions, now, issued, revoked, appointments, patients, staff, client>>

\* the handler validates, awaits User.findOne, checks the lock, awaits verifyPassword and
\* checks the second factor, all on the row it has read
CallFindOne(c) ==
  LET out == loginHandler(calls[c].req, users, sessions, now)
      wrongPassword == /\ out.resp.status = 401
                       /\ out.resp.user # NoUser
                       /\ out.resp.message = "Invalid credentials"
      verified == out.resp.status = 200 /\ out.resp.token # NoToken
  IN
  /\ calls[c].pc = "findOne"
  /\ IF wrongPassword
     THEN /\ calls' = [calls EXCEPT ![c].pc = "findByPk", ![c].user = out.resp.user]
          /\ resp' = Pending
     ELSE IF verified
     THEN /\ calls' = [calls EXCEPT ![c].pc = "reset", ![c].user = out.resp.user,
                                    ![c].token = out.resp.token]
          /\ resp' = Pending
     ELSE /\ calls' = [calls EXCEPT ![c] = Idle]
          /\ resp' = out.resp
  /\ UNCHANGED <<users, rateKeys, blacklist, sessions, now, issued, revoked,
                 appointments, patients, staff, client>>

\* handleFailedLogin awaits User.findByPk and computes the new count from the row
CallFindByPk(c) ==
  /\ calls[c].pc = "findByPk"
  /\ calls' = [calls EXCEPT
                 ![c].pc = "update",
                 ![c].failedAttempts = users[calls[c].user].failed_login_attempts + 1]
  /\ resp' = Pending
  /\ UNCHANGED <<users, rateKeys, blacklist, sessions, now, issued, revoked,
                 appointments, patients, staff, client>>

\* handleFailedLogin awaits user.update with the count it computed; the handler answers
CallUpdate(c) ==
  LET userId == calls[c].user
      failedAttempts == calls[c].failedAttempts
      locks == failedAttempts >= maxAttempts
  IN
  /\ calls[c].pc = "update"
  /\ users' = IF locks
              THEN [users EXCEPT ![userId].failed_login_attempts = failedAttempts,
                                 ![userId].locked_until = now + lockoutDuration]
              ELSE [users EXCEPT ![userId].failed_login_attempts = failedAttempts]
  /\ resp' = Logged(About(Reply(calls[c].req, 401, "Invalid credentials"), users, userId),
                    {Event("login_attempt_invalid_password", userId)}
                      \cup IF locks THEN {Event("account_locked", userId)} ELSE {})
  /\ calls' = [calls EXCEPT ![c] = Idle]
  /\ UNCHANGED <<rateKeys, blacklist, sessions, now, issued, revoked, appointments, patients, staff, client>>

\* the handler awaits resetFailedAttempts
CallReset(c) ==
  /\ calls[c].pc = "reset"
  /\ users' = resetFailedAttempts(users, calls[c].user, now)
  /\ calls' = [calls EXCEPT ![c].pc = "session"]
  /\ resp' = Pending
  /\ UNCHANGED <<rateKeys, blacklist, sessions, now, issued, revoked, appointments, patients, staff, client>>

\* the handler awaits createSession and answers with the token
CallSession(c) ==
  LET userId == calls[c].user
      token == calls[c].token
  IN
  /\ calls[c].pc = "session"
  /\ sessions' = createSession(sessions, token, now)
  /\ resp' = Logged([About(Reply(calls[c].req, 200, "Login successful"), users, userId)
                       EXCEPT !.token = token],
                    {Event("login_successful", userId)})
  /\ \E kept \in Keep(issued, token) :
       /\ issued' = kept
       /\ revoked' = revoked \cap kept
  /\ calls' = [calls EXCEPT ![c] = Idle]
  /\ UNCHANGED <<users, rateKeys, blacklist, now, appointments, patients, staff, client>>

(***************************************************************************)
(* Time passes; Redis drops the keys whose time-to-live has run out.       *)
(***************************************************************************)
Expire(t) ==
  /\ rateKeys' = [ip \in IPs |-> IF rateKeys[ip].expireAt > t THEN rateKeys[ip] ELSE NoKey]
  /\ blacklist' = Live(blacklist, t)
  /\ sessions' = Live(sessions, t)

\* d minutes pass, within the part of each day that the model observes
Tick(d) ==
  /\ (now % Day) + d <= MaxTicks * TickStep
  /\ now' = now + d
  /\ Expire(now + d)
  /\ resp' = Reply(NoReq, 0, "tick")
  /\ UNCHANGED <<users, issued, revoked, appointments, patients, calls, staff, client>>

TickDay ==
  /\ now + Day <= MaxDays * Day + MaxTicks * TickStep
  /\ now' = now + Day
  /\ Expire(now + Day)
  /\ resp' = Reply(NoReq, 0, "tick")
  /\ UNCHANGED <<users, issued, revoked, appointments, patients, calls, staff, client>>

(***************************************************************************)
(* The web client's auth slice (Redux): the state, the reducers, and the   *)
(* thunks.  A thunk is dispatched (pending), the HTTP request is in        *)
(* flight, and it settles as fulfilled or rejected.  The App renders only  *)
(* the loading spinner while loading is true, so the pages can dispatch a  *)
(* thunk only while it is false.                                           *)
(***************************************************************************)
clientMaxAttempts == 5
clientLockout == 30

NoProfile == [present |-> FALSE, twoFactorEnabled |-> FALSE]

initialState ==
  [user |-> NoProfile, token |-> Null, isAuthenticated |-> FALSE, loading |-> FALSE,
   error |-> Null, twoFactorRequired |-> FALSE, loginAttempts |-> 0,
   accountLocked |-> FALSE, lockoutTime |-> NullTime]

\* the thunks a visitor can start, and those a signed-in user can start
GuestThunks == {"login", "forgotPassword", "resetPassword"}
MemberThunks ==
  {"logout", "changePassword", "enableTwoFactor", "verifyTwoFactorSetup",
   "disableTwoFactor", "updateProfile", "register"}

\* extraReducers: <thunk>.pending, then the matcher for every '/pending' action
pending(state, thunk) == [state EXCEPT !.loading = TRUE, !.error = Null]

\* extraReducers: <thunk>.fulfilled; there is no matcher for '/fulfilled' actions
fulfilled(state, thunk, payload) ==
  CASE thunk = "login" /\ payload = "twoFactorRequired" ->
         [state EXCEPT !.loading = FALSE, !.twoFactorRequired = TRUE]
    [] thunk = "login" /\ payload # "twoFactorRequired" ->
         [state EXCEPT !.loading = FALSE, !.isAuthenticated = TRUE,
                       !.user = [NoProfile EXCEPT !.present = TRUE], !.token = payload,
                       !.twoFactorRequired = FALSE, !.loginAttempts = 0,
                       !.accountLocked = FALSE, !.lockoutTime = NullTime]
    [] thunk = "checkAuthStatus" ->
         [state EXCEPT !.loading = FALSE, !.isAuthenticated = TRUE,
                       !.user = [NoProfile EXCEPT !.present = TRUE], !.token = payload]
    [] thunk = "logout" ->
         [state EXCEPT !.isAuthenticated = FALSE, !.user = NoProfile, !.token = Null,
                       !.twoFactorRequired = FALSE, !.error = Null]
    [] thunk = "updateProfile" -> [state EXCEPT !.user.present = TRUE]
    [] thunk = "enableTwoFactor" ->
         [state EXCEPT !.user.present = TRUE, !.user.twoFactorEnabled = FALSE]
    [] thunk = "verifyTwoFactorSetup" ->
         [state EXCEPT !.user.present = TRUE, !.user.twoFactorEnabled = TRUE]
    [] thunk = "disableTwoFactor" ->
         [state EXCEPT !.user.present = TRUE, !.user.twoFactorEnabled = FALSE]
    [] OTHER -> state

\* extraReducers: <thunk>.rejected, then the matcher for every '/rejected' action
rejected(state, thunk, payload, t) ==
  LET attempts == state.loginAttempts + 1
      case == CASE thunk = "login" ->
                     [state EXCEPT !.loading = FALSE, !.error = payload,
                                   !.loginAttempts = attempts,
                                   !.accountLocked = IF attempts >= clientMaxAttempts
                                                     THEN TRUE ELSE @,
                                   !.lockoutTime = IF attempts >= clientMaxAttempts
                                                   THEN t + clientLockout ELSE @]
                [] thunk = "checkAuthStatus" ->
                     [state EXCEPT !.loading = FALSE, !.isAuthenticated = FALSE,
                                   !.user = NoProfile, !.token = Null]
                [] OTHER -> state
  IN [case EXCEPT !.loading = FALSE, !.error = payload]

\* reducers.checkLockoutExpiry
checkLockoutExpiry(state, t) ==
  IF state.lockoutTime # NullTime /\ t > state.lockoutTime
  THEN [state EXCEPT !.accountLocked = FALSE, !.lockoutTime = NullTime,
                     !.loginAttempts = 0]
  ELSE state

\* the message a thunk rejects with when the response carries none
FailureOf(thunk) ==
  CASE thunk = "login" -> "Login failed"
    [] thunk = "checkAuthStatus" -> "Token validation failed"
    [] OTHER -> "Request failed"

\* nothing loaded yet: the initial state of the slice, no token in localStorage;
\* inFlight is the thunk whose request is in flight, settled the thunk that settled last
InitClient ==
  client = [state |-> initialState, storage |-> Null, inFlight |-> "none",
            settled |-> "none", mounted |-> FALSE]

ServerVars ==
  <<users, rateKeys, blacklist, sessions, now, issued, revoked, resp, appointments,
    patients, calls, staff>>

\* the App mounts (the page is loaded or reloaded, the persisted slice is restored)
\* and its effect dispatches checkAuthStatus
Mount ==
  /\ client.inFlight = "none"
  /\ client' = [client EXCEPT !.mounted = TRUE, !.inFlight = "checkAuthStatus",
                              !.state = pending(client.state, "checkAuthStatus")]
  /\ UNCHANGED ServerVars

\* a page dispatches a thunk; the count of failed logins is kept below MaxLoginAttempts
Dispatch(thunk) ==
  /\ client.mounted
  /\ client.inFlight = "none"
  /\ ~client.state.loading
  /\ thunk \in IF client.state.isAuthenticated THEN MemberThunks ELSE GuestThunks
  /\ thunk = "login" => client.state.loginAttempts < MaxLoginAttempts
  /\ client' = [client EXCEPT !.inFlight = thunk, !.state = pending(client.state, thunk)]
  /\ UNCHANGED ServerVars

\* the thunk's payload creator returns: login and checkAuthStatus pass the token on
\* (login after setAuthToken stored it), logout clears the stored token
Fulfilled(payload) ==
  LET thunk == client.inFlight IN
  /\ thunk # "none"
  /\ thunk = "checkAuthStatus" => client.storage # Null /\ payload = client.storage
  /\ thunk = "login" => payload \in {"twoFactorRequired", "token"}
  /\ thunk \notin {"login", "checkAuthStatus"} => payload = "data"
  /\ client' = [client EXCEPT
                  !.inFlight = "none",
                  !.settled = thunk,
                  !.state = fulfilled(client.state, thunk, payload),
                  !.storage = IF thunk = "login" /\ payload = "token" THEN payload
                              ELSE IF thunk = "logout" THEN Null
                              ELSE @]
  /\ UNCHANGED ServerVars

\* the thunk's payload creator returns rejectWithValue(message); logout never does;
\* checkAuthStatus does so without a request when no token is stored, and clears the
\* stored token when the request failed
Rejected ==
  LET thunk == client.inFlight IN
  /\ thunk \notin {"none", "logout"}
  /\ client' = [client EXCEPT
                  !.inFlight = "none",
                  !.settled = thunk,
                  !.state = rejected(client.state, thunk, FailureOf(thunk), now),
                  !.storage = IF thunk = "checkAuthStatus" THEN Null ELSE @]
  /\ UNCHANGED ServerVars

\* the Login page dispatches checkLockoutExpiry when it mounts and when its timer ends
CheckLockoutExpiry ==
  /\ client.mounted
  /\ ~client.state.loading
  /\ ~client.state.isAuthenticated
  /\ client.state.accountLocked
  /\ client' = [client EXCEPT !.state = checkLockoutExpiry(client.state, now)]
  /\ UNCHANGED ServerVars

Settle == Rejected \/ \E payload \in {"twoFactorRequired", "token", "data"} : Fulfilled(payload)

(***************************************************************************)
(* The initial state: the seeded accounts, empty Redis.                    *)
(***************************************************************************)
InitUser(u) ==
  [email |-> EmailOf(u), password_hash |-> hashPassword(PasswordOf(u)), role |-> RoleOf(u),
   is_active |-> TRUE, last_login |-> NullTime, failed_login_attempts |-> 0,
   locked_until |-> NullTime, two_factor_enabled |-> FALSE, two_factor_secret |-> Null]

\* the two-factor enrolment states that the enrolment routes leave an account in
Enrolments ==
  {[two_factor_enabled |-> FALSE, two_factor_secret |-> Null]}
    \cup {[two_factor_enabled |-> e, two_factor_secret |-> s] : e \in BOOLEAN, s \in Secrets}

InitWith(enrolments) ==
  /\ \E e \in enrolments :
       users = [u \in UserIds |->
                  IF u = "u1"
                  THEN [InitUser(u) EXCEPT !.two_factor_enabled = e.two_factor_enabled,
                                           !.two_factor_secret = e.two_factor_secret]
                  ELSE InitUser(u)]
  /\ rateKeys = [ip \in IPs |-> NoKey]
  /\ blacklist = {}
  /\ sessions = {}
  /\ now = 0
  /\ issued = {}
  /\ revoked = {}
  /\ resp = Reply(NoReq, 0, "init")

\* no appointment and no patient stored yet; no login request in flight
InitClinic ==
  /\ appointments = [a \in AppointmentIds |-> NoAppointment]
  /\ patients = [p \in PatientIds |-> NoPatient]

InitCalls == calls = [c \in Callers |-> Idle]

\* the seeded staff: each row is linked to the doctor's account
InitStaff ==
  staff = [d \in StaffRows |->
             IF d \in StaffIds THEN [user_id |-> "u1", employee_id |-> "EMP001"]
             ELSE NoStaff]

Init == InitWith(Enrolments) /\ InitClinic /\ InitCalls /\ InitStaff /\ InitClient

(***************************************************************************)
(* The login requests that clients send: for a known account, each         *)
(* password with each second-factor code; a password that is too short;    *)
(* an unknown email.  The wrong code is the code of a secret that is not   *)
(* the account's.                                                          *)
(***************************************************************************)
LoginCodes == {NoCode, ShortCode, Totp("S0", now)} \cup {Totp(s, now) : s \in Secrets}

LoginShapes(emails) ==
  {<<e, p, c>> \in emails \X {PasswordOf(u) : u \in UserIds} \X LoginCodes : TRUE}
    \cup {<<e, "abc", NoCode>> : e \in emails}
    \cup {<<"ghost@h.com", PasswordOf("u1"), NoCode>>}

(***************************************************************************)
(* Spec: the login route with the stores available, and the clock.         *)
(***************************************************************************)
Next ==
  \/ \E r \in LoginShapes({"doc@h.com"}) : Login("ip1", r[1], r[2], r[3], "none")
  \/ Tick(TickStep)

Spec == Init /\ [][Next]_vars

(***************************************************************************)
(* SpecSession: tokens from login to expiry.  Accounts without a second    *)
(* factor log in, present their tokens to a protected route and log out.   *)
(***************************************************************************)
InitSession ==
  /\ InitWith({[two_factor_enabled |-> FALSE, two_factor_secret |-> Null]})
  /\ InitClinic
  /\ InitCalls
  /\ InitStaff
  /\ InitClient

NextSession ==
  \/ \E password \in {PasswordOf(u) : u \in UserIds} :
       Login("ip1", "doc@h.com", password, NoCode, "none")
  \/ \E bearer \in Bearers : GetMe(bearer, "none")
  \/ \E bearer \in Bearers : Logout(bearer, "none")
  \/ Tick(lockoutDuration)
  \/ TickDay

SpecSession == InitSession /\ [][NextSession]_vars

(***************************************************************************)
(* SpecFaults: the login route while Redis commands of authRateLimit may   *)
(* fail (the read, or the increment/expire transaction).                   *)
(***************************************************************************)
NextFaults ==
  \/ \E password \in {PasswordOf(u) : u \in UserIds}, fault \in {"none", "get", "multi"} :
       Login("ip1", "doc@h.com", password, NoCode, fault)
  \/ Tick(TickStep)

SpecFaults == InitSession /\ [][NextFaults]_vars

(***************************************************************************)
(* SpecPaced: one client sends a login request, waits one minute less than *)
(* the rate-limit window, sends the next, and so on.                       *)
(***************************************************************************)
ClientPeriod == windowMin - 1

PacedLogin(ip, email, password, twoFactorToken) ==
  /\ resp.req.op # "login"
  /\ Login(ip, email, password, twoFactorToken, "none")

PacedWait ==
  /\ resp.req.op = "login"
  /\ now + ClientPeriod <= MaxPaces * ClientPeriod
  /\ now' = now + ClientPeriod
  /\ Expire(now + ClientPeriod)
  /\ resp' = Reply(NoReq, 0, "tick")
  /\ UNCHANGED <<users, issued, revoked, appointments, patients, calls, staff, client>>

NextPaced ==
  \/ \E password \in {PasswordOf(u) : u \in UserIds} :
       PacedLogin("ip1", "doc@h.com", password, NoCode)
  \/ PacedWait

SpecPaced == InitSession /\ [][NextPaced]_vars

(***************************************************************************)
(* SpecConcurrent: login requests of two callers, interleaved at awaits.   *)
(***************************************************************************)
NextConcurrent ==
  \/ \E c \in Callers, password \in {PasswordOf(u) : u \in UserIds} :
       CallGet(c, "ip1", "doc@h.com", password, NoCode)
  \/ \E c \in Callers : CallMulti(c)
  \/ \E c \in Callers : CallFindOne(c)
  \/ \E c \in Callers : CallFindByPk(c)
  \/ \E c \in Callers : CallUpdate(c)
  \/ \E c \in Callers : CallReset(c)
  \/ \E c \in Callers : CallSession(c)

SpecConcurrent == InitSession /\ [][NextConcurrent]_vars

(***************************************************************************)
(* SpecPatients: staff log in and register, update and deactivate          *)
(* patients.  The first account is a doctor or a nurse.                    *)
(***************************************************************************)
InitStores ==
  /\ rateKeys = [ip \in IPs |-> NoKey]
  /\ blacklist = {}
  /\ sessions = {}
  /\ now = 0
  /\ issued = {}
  /\ revoked = {}
  /\ resp = Reply(NoReq, 0, "init")

InitPatients ==
  /\ \E role \in {"doctor", "nurse"} :
       users = [u \in UserIds |->
                  IF u = "u1" THEN [InitUser(u) EXCEPT !.role = role] ELSE InitUser(u)]
  /\ InitStores
  /\ InitClinic
  /\ InitCalls
  /\ InitStaff
  /\ InitClient

NextPatients ==
  \/ \E u \in UserIds : Login("ip1", EmailOf(u), PasswordOf(u), NoCode, "none")
  \/ \E bearer \in Bearers, phone \in Phones \cup {BadPhone} :
       RegisterPatient(bearer, phone, "none")
  \/ \E bearer \in Bearers, id \in PatientIds, phone \in Phones \cup {Null} :
       UpdatePatient(bearer, id, phone, "none")
  \/ \E bearer \in Bearers, id \in PatientIds : DeactivatePatient(bearer, id, "none")

SpecPatients == InitPatients /\ [][NextPatients]_vars

(***************************************************************************)
(* SpecOpd: a doctor logs in and books, updates and changes the status of  *)
(* appointments of one registered patient.                                 *)
(***************************************************************************)
InitOpd ==
  /\ InitWith({[two_factor_enabled |-> FALSE, two_factor_secret |-> Null]})
  /\ appointments = [a \in AppointmentIds |-> NoAppointment]
  /\ patients = [p \in PatientIds |->
                   IF p = "p1"
                   THEN [patient_id |-> 1, phone |-> "9000000001", is_active |-> TRUE]
                   ELSE NoPatient]
  /\ InitCalls
  /\ InitStaff
  /\ InitClient

\* bookings of the registered patient with the doctor for each slot; one each for a
\* patient that is not registered, a doctor that does not exist, a malformed time
BookShapes ==
  {<<"p1", d, date, time>> : d \in StaffIds, date \in Dates, time \in Times}
    \cup {<<"p2", d, date, "09:00">> : d \in StaffIds, date \in Dates}
    \cup {<<"p1", "d0", date, "09:00">> : date \in Dates}
    \cup {<<"p1", d, date, BadTime>> : d \in StaffIds, date \in Dates}

NextOpd ==
  \/ Login("ip1", EmailOf("u1"), PasswordOf("u1"), NoCode, "none")
  \/ \E bearer \in Bearers, b \in BookShapes :
       BookAppointment(bearer, b[1], b[2], b[3], b[4], "none")
  \/ \E bearer \in Bearers, id \in AppointmentIds, date \in Dates \cup {Null},
        time \in Times \cup {Null} :
       UpdateAppointment(bearer, id, date, time, "none")
  \/ \E bearer \in Bearers, id \in AppointmentIds,
        status \in {"confirmed", "completed", "cancelled"} :
       SetAppointmentStatus(bearer, id, status, "none")

SpecOpd == InitOpd /\ [][NextOpd]_vars

(***************************************************************************)
(* Vocabulary of the properties, stated on the stores directly.            *)
(***************************************************************************)
LoginStepFor(u) == resp'.req.op = "login" /\ resp'.req.email = users[u].email

LockLive(u) == users[u].locked_until # NullTime /\ now < users[u].locked_until

LockExpired(u) == users[u].locked_until # NullTime /\ now >= users[u].locked_until

\* the request passes authRateLimit and the body validation, and the account is active
ReachesLockCheck(u, req) ==
  /\ rateKeys[req.ip].value < authMaxAttempts
  /\ Len(req.password) >= minPasswordLen
  /\ req.code.digits \in {0, twoFactorTokenLen}
  /\ users[u].is_active

PasswordRight(u, req) == users[u].password_hash = <<"bcrypt", req.password>>

CodeRight(u, req) ==
  /\ req.code.digits = twoFactorTokenLen
  /\ req.code.secret = users[u].two_factor_secret
  /\ req.code.step >= now - totpWindow
  /\ req.code.step <= now + totpWindow

\* C1: a login request for an account whose locked_until lies in the future returns
\* no token, and when it reaches the handler's lock check (the rate limiter passed it
\* on, its body is valid, the account is active) it is answered 423, whatever
\* password and two-factor code it carries; the account is left as it was.
C1_LockedLoginRejected ==
  [][\A u \in UserIds :
       (LoginStepFor(u) /\ LockLive(u))
         => /\ resp'.token = NoToken
            /\ issued' = issued
            /\ users' = users
            /\ ReachesLockCheck(u, resp'.req) => resp'.status = 423]_vars

C1_Witness ==
  \E u \in UserIds :
    /\ resp.req.op = "login" /\ resp.user = u /\ resp.status = 423
    /\ resp.before.locked_until > now
    /\ resp.req.password = PasswordOf(u)
    /\ users[u].two_factor_enabled
    /\ resp.req.code = Totp(users[u].two_factor_secret, now)

\* C2: for an account with two_factor_enabled, a login returns a token only if the
\* request carried a code that is a current code of the account's secret; a request
\* with the right password and no code that reaches the two-factor check is answered
\* 200 with twoFactorRequired and no token.
C2_TwoFactorNeverSkipped ==
  [][\A u \in UserIds :
       (LoginStepFor(u) /\ users[u].two_factor_enabled)
         => /\ resp'.token # NoToken => CodeRight(u, resp'.req)
            /\ (/\ ReachesLockCheck(u, resp'.req)
                /\ ~LockLive(u)
                /\ PasswordRight(u, resp'.req)
                /\ resp'.req.code = NoCode)
                 => /\ resp'.status = 200
                    /\ resp'.twoFactorRequired
                    /\ resp'.token = NoToken
                    /\ issued' = issued]_vars

C2_Witness ==
  \E u \in UserIds :
    /\ resp.req.op = "login" /\ resp.user = u
    /\ users[u].two_factor_enabled
    /\ resp.token # NoToken
    /\ resp.req.code = Totp(users[u].two_factor_secret, now)

\* C4: a wrong-password login answered 401 adds one to failed_login_attempts; the one
\* that brings the counter from 4 to 5 sets locked_until to its own time + 30 minutes,
\* the earlier ones leave locked_until alone; and a login with the right password that
\* reaches the handler while the counter is 5 and locked_until lies in the future is
\* answered 423, not 401 and not 200.
C4_FiveFailuresLock ==
  [][\A u \in UserIds :
       /\ (/\ LoginStepFor(u)
           /\ ~PasswordRight(u, resp'.req)
           /\ resp'.status = 401)
            => /\ users'[u].failed_login_attempts = users[u].failed_login_attempts + 1
               /\ users[u].failed_login_attempts + 1 = maxAttempts
                    => users'[u].locked_until = now + lockoutDuration
               /\ users[u].failed_login_attempts + 1 < maxAttempts
                    => users'[u].locked_until = users[u].locked_until
       /\ (/\ LoginStepFor(u)
           /\ users[u].failed_login_attempts = maxAttempts
           /\ LockLive(u)
           /\ PasswordRight(u, resp'.req)
           /\ ReachesLockCheck(u, resp'.req))
            => resp'.status = 423 /\ resp'.token = NoToken]_vars

C4_Witness ==
  \E u \in UserIds :
    /\ resp.req.op = "login" /\ resp.user = u /\ resp.status = 401
    /\ resp.before.failed_login_attempts = maxAttempts - 1
    /\ resp.before.locked_until = NullTime
    /\ users[u].failed_login_attempts = maxAttempts
    /\ users[u].locked_until = now + lockoutDuration

\* C5: once now >= locked_until, a login with the right password (and, for an account
\* with a second factor, a current code) that the rate limiter passes on succeeds with
\* 200 and a token, and leaves failed_login_attempts = 0 and locked_until = null; no
\* other step is needed to unlock the account.
C5_LockExpiresByItself ==
  [][\A u \in UserIds :
       (/\ LoginStepFor(u)
        /\ LockExpired(u)
        /\ ReachesLockCheck(u, resp'.req)
        /\ PasswordRight(u, resp'.req)
        /\ users[u].two_factor_enabled => CodeRight(u, resp'.req))
         => /\ resp'.status = 200
            /\ resp'.token # NoToken
            /\ resp'.token \in issued'
            /\ users'[u].failed_login_attempts = 0
            /\ users'[u].locked_until = NullTime]_vars

C5_Witness ==
  \E u \in UserIds :
    /\ resp.req.op = "login" /\ resp.user = u /\ resp.status = 200
    /\ resp.token # NoToken
    /\ resp.before.locked_until # NullTime
    /\ resp.before.locked_until <= now
    /\ resp.before.failed_login_attempts >= maxAttempts
    /\ users[u].failed_login_attempts = 0
    /\ users[u].locked_until = NullTime

\* C6: a login with the right password and a wrong two-factor code for an account with
\* two_factor_enabled is rejected and adds one to failed_login_attempts.
C6_WrongCodeCounts ==
  [][\A u \in UserIds :
       (/\ LoginStepFor(u)
        /\ users[u].two_factor_enabled
        /\ ReachesLockCheck(u, resp'.req)
        /\ ~LockLive(u)
        /\ PasswordRight(u, resp'.req)
        /\ resp'.req.code.digits = twoFactorTokenLen
        /\ ~CodeRight(u, resp'.req))
         => /\ resp'.status = 401
            /\ resp'.token = NoToken
            /\ users'[u].failed_login_attempts = users[u].failed_login_attempts + 1]_vars

\* C7: authRateLimit counts the login requests of an IP: a request that finds fewer
\* than 10 counted passes and is counted, with the key set to expire 15 minutes later;
\* a request that finds 10 counted is answered 429 with no account read or written and
\* no token, whatever it carries; the count lasts as long as the key has not expired.
\* So of 11 requests within 15 minutes the first 10 pass and the 11th gets 429.
C7_EleventhIs429 ==
  [][/\ \A ip \in IPs :
          (resp'.req.op = "login" /\ resp'.req.ip = ip)
            => IF rateKeys[ip].value >= authMaxAttempts
               THEN /\ resp'.status = 429
                    /\ resp'.token = NoToken
                    /\ resp'.user = NoUser
                    /\ users' = users
                    /\ rateKeys'[ip] = rateKeys[ip]
               ELSE /\ resp'.status # 429
                    /\ rateKeys'[ip].value = rateKeys[ip].value + 1
                    /\ rateKeys'[ip].expireAt = now + windowMin
     /\ \A ip \in IPs :
          (resp'.req.op # "login" \/ resp'.req.ip # ip)
            => \/ rateKeys'[ip] = rateKeys[ip]
               \/ rateKeys[ip].expireAt <= now' /\ rateKeys'[ip].value = 0
     /\ \A ip \in IPs : rateKeys'[ip].value <= authMaxAttempts]_vars

C7_Witness ==
  \E u \in UserIds :
    /\ resp.req.op = "login" /\ resp.status = 429
    /\ resp.req.email = users[u].email
    /\ resp.req.password = PasswordOf(u)
    /\ users[u].locked_until = NullTime
    /\ ~users[u].two_factor_enabled
    /\ rateKeys[resp.req.ip].value = authMaxAttempts

Presents(ops) == resp'.req.op \in ops

Blacklisted(keys, token, t) == \E k \in keys : k.token = token /\ k.expireAt > t

\* C3: a token that logout has revoked is rejected with 401 by every later
\* authenticateToken call, at once and at every later time, also after the blacklist
\* key has expired (the token has then expired too).
C3_RevokedNeverAccepted ==
  [][(Presents({"me", "logout"}) /\ resp'.req.bearer \in revoked)
       => /\ ~resp'.next
          /\ resp'.status = 401
          /\ Blacklisted(blacklist, resp'.req.bearer, now) \/ now >= resp'.req.bearer.exp]_vars

C3_Witness ==
  /\ resp.req.op = "me"
  /\ resp.req.bearer \in revoked
  /\ ~Blacklisted(blacklist, resp.req.bearer, now)
  /\ resp.status = 401
  /\ ~resp.next

\* C8 as stated: a token that login returned is accepted by authenticateToken on every
\* request before its expiry when no blacklist key exists for it.
C8_IssuedTokenAccepted ==
  [][(/\ Presents({"me"})
      /\ resp'.req.bearer \in issued
      /\ now < resp'.req.bearer.exp
      /\ ~Blacklisted(blacklist, resp'.req.bearer, now))
       => resp'.next]_vars

\* C8 as amended: a token that login returned is accepted by authenticateToken on every
\* request before its expiry when no blacklist key exists for it and its account is
\* active and not locked at the time of the request (the revocation store answering).
C8_IssuedTokenAcceptedUnlessLocked ==
  [][(/\ Presents({"me"})
      /\ resp'.req.bearer \in issued
      /\ now < resp'.req.bearer.exp
      /\ ~Blacklisted(blacklist, resp'.req.bearer, now)
      /\ users[resp'.req.bearer.userId].is_active
      /\ ~LockLive(resp'.req.bearer.userId))
       => /\ resp'.next
          /\ resp'.status = 200
          /\ resp'.user = resp'.req.bearer.userId]_vars

C8_Witness ==
  /\ resp.req.op = "me"
  /\ resp.next
  /\ resp.req.bearer \in issued
  /\ resp.req.bearer.iat < now
  /\ users[resp.user].locked_until # NullTime
  /\ users[resp.user].locked_until <= now

\* C9: while an account's locked_until lies in the future, every request that presents
\* a token of that account is rejected by authenticateToken and the route handler is
\* not run (a logout writes no blacklist key), also for a token issued before the lock.
C9_LockedAccountTokenRejected ==
  [][\A u \in UserIds :
       (Presents({"me", "logout"}) /\ resp'.req.bearer.userId = u /\ LockLive(u))
         => /\ ~resp'.next
            /\ resp'.status # 200
            /\ blacklist' = blacklist
            /\ sessions' = sessions]_vars

C9_Witness ==
  \E u \in UserIds :
    /\ resp.req.op = "me" /\ resp.user = u /\ resp.status = 423
    /\ ~resp.next
    /\ resp.req.bearer \in issued
    /\ users[u].locked_until > now
    /\ resp.req.bearer.iat + lockoutDuration <= users[u].locked_until

\* C10 as stated: a logout that presents a correctly signed, unexpired, not yet revoked
\* token of an active account ends with a blacklist key for that token.
C10_LogoutAlwaysRevokes ==
  [][(/\ Presents({"logout"})
      /\ resp'.req.bearer \in issued
      /\ now < resp'.req.bearer.exp
      /\ ~Blacklisted(blacklist, resp'.req.bearer, now)
      /\ users[resp'.req.bearer.userId].is_active)
       => Blacklisted(blacklist', resp'.req.bearer, now')]_vars

\* C10 as amended: a logout that presents a correctly signed, unexpired, not yet
\* revoked token of an active account that is not locked at that time (the revocation
\* store answering) is answered 200 and ends with a blacklist key for that token that
\* lasts until the token expires.
C10_LogoutRevokesUnlessLocked ==
  [][(/\ Presents({"logout"})
      /\ resp'.req.bearer \in issued
      /\ now < resp'.req.bearer.exp
      /\ ~Blacklisted(blacklist, resp'.req.bearer, now)
      /\ users[resp'.req.bearer.userId].is_active
      /\ ~LockLive(resp'.req.bearer.userId))
       => /\ resp'.status = 200
          /\ resp'.req.bearer \in revoked'
          /\ \E k \in blacklist' :
               k.token = resp'.req.bearer /\ k.expireAt = resp'.req.bearer.exp]_vars

C10_Witness ==
  /\ resp.req.op = "logout"
  /\ resp.status = 200
  /\ resp.req.bearer \in issued
  /\ \E k \in blacklist : k.token = resp.req.bearer /\ k.expireAt = resp.req.bearer.exp
  /\ ~(\E k \in sessions : k.token = resp.req.bearer)

\* the bearer token of the request is one that login returned, unexpired, not revoked,
\* and its account is active and not locked
Authenticated(req) ==
  /\ req.bearer \in issued
  /\ now < req.bearer.exp
  /\ ~Blacklisted(blacklist, req.bearer, now)
  /\ users[req.bearer.userId].is_active
  /\ ~LockLive(req.bearer.userId)

\* the role lists that the routes declare
RequiredRoles(op) ==
  CASE op = "patient-register" -> {"admin", "receptionist", "doctor", "nurse"}
    [] op = "patient-update" -> {"admin", "receptionist", "doctor"}
    [] op = "patient-deactivate" -> {"admin"}
    [] op = "appointment-book" -> {"admin", "receptionist", "doctor", "nurse"}
    [] op = "appointment-update" -> {"admin", "receptionist", "doctor"}
    [] op = "appointment-status" -> {"admin", "receptionist", "doctor", "nurse"}

GuardedOps ==
  {"patient-register", "patient-update", "patient-deactivate",
   "appointment-book", "appointment-update", "appointment-status"}

\* C11: a request of an authenticated user to a route behind authorize(...roles) reaches
\* the route handler if and only if the user's role is in the route's list; for a role
\* outside the list it is answered 403 and nothing is stored or changed.
C11_AuthorizeIffRoleListed ==
  [][(resp'.req.op \in GuardedOps /\ Authenticated(resp'.req))
       => IF users[resp'.req.bearer.userId].role \in RequiredRoles(resp'.req.op)
          THEN resp'.next /\ resp'.status # 403
          ELSE /\ resp'.status = 403
               /\ ~resp'.next
               /\ patients' = patients
               /\ appointments' = appointments]_vars

C11_Witness ==
  /\ resp.req.op = "patient-update"
  /\ resp.status = 403
  /\ ~resp.next
  /\ resp.req.bearer \in issued
  /\ users[resp.req.bearer.userId].role = "nurse"
  /\ patients[resp.req.id].is_active

\* C12: every wrong-password login that is answered 401 leaves failed_login_attempts one
\* higher than it was just before the answer, also when another login for the account is
\* in flight, so that two concurrent failures raise the counter by 2.
C12_NoLostIncrement ==
  [][\A u \in UserIds :
       (/\ resp'.req.op = "login"
        /\ resp'.status = 401
        /\ resp'.user = u)
         => users'[u].failed_login_attempts = users[u].failed_login_attempts + 1]_vars

\* C13: a login request during which the rate limiter's Redis read fails, or its
\* increment/expire transaction fails, is never answered 429: it is handled by the login
\* handler (423 for a locked account, 401 and a counted failure for a wrong password,
\* 200 with a token for the right one), and the rate-limit key is left as it was.
C13_RateLimiterFailsOpen ==
  [][\A u \in UserIds :
       (/\ LoginStepFor(u)
        /\ \/ resp'.req.fault = "get"
           \/ /\ resp'.req.fault = "multi"
              /\ rateKeys[resp'.req.ip].value < authMaxAttempts)
         => /\ resp'.status # 429
            /\ rateKeys' = rateKeys
            /\ LockLive(u) => resp'.status = 423
            /\ (~LockLive(u) /\ ~PasswordRight(u, resp'.req))
                 => /\ resp'.status = 401
                    /\ users'[u].failed_login_attempts = users[u].failed_login_attempts + 1
            /\ (~LockLive(u) /\ PasswordRight(u, resp'.req) /\ ~users[u].two_factor_enabled)
                 => resp'.status = 200 /\ resp'.token # NoToken]_vars

C13_Witness ==
  /\ resp.req.op = "login"
  /\ resp.req.fault = "get"
  /\ rateKeys[resp.req.ip].value = authMaxAttempts
  /\ rateKeys[resp.req.ip].expireAt > now
  /\ resp.status = 200
  /\ resp.token # NoToken

\* C14: no two stored appointments whose status is neither cancelled nor no_show have the
\* same doctor_id, appointment_date and appointment_time.
C14_NoDoubleBooking ==
  \A a, b \in AppointmentIds :
    (/\ a # b
     /\ appointments[a].status \notin {Null, "cancelled", "no_show"}
     /\ appointments[b].status \notin {Null, "cancelled", "no_show"})
      => \/ appointments[a].doctor_id # appointments[b].doctor_id
         \/ appointments[a].appointment_date # appointments[b].appointment_date
         \/ appointments[a].appointment_time # appointments[b].appointment_time

C16_ExpiredLockClearsCounter ==
  [][\A u \in UserIds :
       (/\ LoginStepFor(u)
        /\ LockExpired(u)
        /\ ReachesLockCheck(u, resp'.req)
        /\ ~PasswordRight(u, resp'.req))
         => /\ users'[u].failed_login_attempts = 1
            /\ ~(users'[u].locked_until # NullTime /\ now < users'[u].locked_until)]_vars

\* C17: a login answered 423 leaves the account's failed_login_attempts and locked_until
\* as they were.
C17_LockedAttemptNotCounted ==
  [][\A u \in UserIds :
       (LoginStepFor(u) /\ resp'.status = 423)
         => /\ users'[u].failed_login_attempts = users[u].failed_login_attempts
            /\ users'[u].locked_until = users[u].locked_until]_vars

C17_Witness ==
  \E u \in UserIds :
    /\ resp.req.op = "login" /\ resp.user = u /\ resp.status = 423
    /\ resp.req.password # PasswordOf(u)
    /\ users[u].failed_login_attempts = maxAttempts
    /\ resp.before.failed_login_attempts = maxAttempts
    /\ users[u].locked_until = resp.before.locked_until
    /\ users[u].locked_until < now + lockoutDuration

\* C18: a login that returns a token sets failed_login_attempts to 0, locked_until to
\* null and last_login to the time of the login; and a wrong-password login that finds
\* the counter below 4 does not lock the account, so 4 failures after a successful login
\* leave it unlocked whatever came before the success.
C18_SuccessResetsCounter ==
  [][\A u \in UserIds :
       /\ (LoginStepFor(u) /\ resp'.token # NoToken)
            => /\ resp'.status = 200
               /\ users'[u].failed_login_attempts = 0
               /\ users'[u].locked_until = NullTime
               /\ users'[u].last_login = now
       /\ (/\ LoginStepFor(u)
           /\ users[u].failed_login_attempts + 1 < maxAttempts
           /\ users[u].locked_until = NullTime)
            => users'[u].locked_until = NullTime]_vars

\* nine logins at time 0, one of them successful, the last four of them failures
C18_Witness ==
  \E u \in UserIds :
    /\ resp.req.op = "login" /\ resp.user = u /\ resp.status = 401
    /\ now = 0
    /\ rateKeys[resp.req.ip].value = 2 * (maxAttempts - 1) + 1
    /\ users[u].last_login = 0
    /\ resp.before.failed_login_attempts = maxAttempts - 2
    /\ users[u].failed_login_attempts = maxAttempts - 1
    /\ users[u].locked_until = NullTime

\* C19: the rate-limit key of an IP never counts more than 10 admitted requests: at most
\* 10 login requests pass authRateLimit while the key lives.
C19_AtMostTenPass == \A ip \in IPs : rateKeys[ip].value <= authMaxAttempts

\* C20: a client that sends one login request every 14 minutes is never answered 429.
C20_PacedClientNeverLimited == resp.req.op = "login" => resp.status # 429

(***************************************************************************)
(* Properties of the token rejections, the audit trail and the enrolment   *)
(* routes.                                                                 *)
(***************************************************************************)
\* the bearer token of the request is forged, expired or revoked
TokenCause(req) ==
  /\ req.bearer # NoToken
  /\ \/ req.bearer.sig # JwtSecret
     \/ now >= req.bearer.exp
     \/ Blacklisted(blacklist, req.bearer, now)

\* the answer of a protected route to a request that authenticateToken turned away
\* with 401 although it carried a token
TokenRejected(r) ==
  /\ r.req.op \in {"me", "logout"}
  /\ r.req.bearer # NoToken
  /\ r.status = 401
  /\ ~r.next

\* C23: every rejection that authenticateToken sends because of the token (forged or
\* malformed, expired, revoked) is the same response: status 401 with the same body,
\* so two such rejections, one after the other, do not differ in status or message.
C23_UniformTokenRejection ==
  [][(Presents({"me", "logout"}) /\ TokenCause(resp'.req))
       => /\ resp'.status = 401
          /\ TokenRejected(resp) => resp'.message = resp.message]_vars

\* C26: a login request that authRateLimit answers 429 reads and writes no account
\* record: no account is looked up, no failed attempt is counted, no lock is set or
\* cleared, no counter is reset, no session is created and no token is returned.
C26_RateLimitedTouchesNoAccount ==
  [][(resp'.req.op = "login" /\ resp'.status = 429)
       => /\ users' = users
          /\ sessions' = sessions
          /\ resp'.user = NoUser
          /\ resp'.before = NoBefore
          /\ resp'.token = NoToken
          /\ resp'.audit = {}]_vars

\* a wrong password for a registered, unlocked account with four failed attempts is
\* answered 429: the handler would have counted it and locked the account
C26_Witness ==
  /\ resp.req.op = "login"
  /\ resp.status = 429
  /\ \E u \in UserIds :
       /\ resp.req.email = users[u].email
       /\ Len(resp.req.password) >= minPasswordLen
       /\ users[u].password_hash # <<"bcrypt", resp.req.password>>
       /\ users[u].failed_login_attempts = maxAttempts - 1
       /\ users[u].locked_until = NullTime

\* C29: a completed appointment is final: no later PUT /appointments/:id and no later
\* PATCH /appointments/:id/status changes its status, date or time.
C29_CompletedIsFinal ==
  [][\A a \in AppointmentIds :
       appointments[a].status = "completed" => appointments'[a] = appointments[a]]_vars

(***************************************************************************)
(* SpecEnrolment: an account without a second factor logs in and uses the  *)
(* enrolment routes; each request is handled before the next arrives.      *)
(***************************************************************************)
SetupCodes == {ShortCode, Totp("S0", now)} \cup {Totp(s, now) : s \in Secrets}

NextEnrolment ==
  \/ \E code \in SetupCodes \cup {NoCode} :
       Login("ip1", EmailOf("u1"), PasswordOf("u1"), code, "none")
  \/ \E bearer \in Bearers, secret \in generateTwoFactorSecret :
       Enable2FA(bearer, secret, "none")
  \/ \E bearer \in Bearers, token \in SetupCodes : Verify2FASetup(bearer, token, "none")
  \/ \E bearer \in Bearers, password \in Passwords \cup {""} :
       Disable2FA(bearer, password, "none")

SpecEnrolment == InitSession /\ [][NextEnrolment]_vars

\* C25: in every reachable state an account holds a two_factor_secret only when
\* two_factor_enabled is true; an account that called enable-2fa and never completed
\* verify-2fa-setup has no stored secret.
C25_SecretOnlyWhenEnrolled ==
  \A u \in UserIds : users[u].two_factor_secret # Null => users[u].two_factor_enabled

(***************************************************************************)
(* The enrolment routes when requests are handled concurrently.  A request *)
(* is a caller; its first step runs authenticateToken and the handler up   *)
(* to the row that User.findByPk returned and the checks made on it, its   *)
(* second step is the awaited user.update, which writes only the fields    *)
(* named in the call, and the answer.                                      *)
(***************************************************************************)
\* the caller's request was answered before any write
Answered(c, reply) ==
  /\ calls' = [calls EXCEPT ![c] = Idle]
  /\ resp' = reply

\* the caller's request waits for its user.update
Awaits(c, pc, auth) ==
  /\ calls' = [calls EXCEPT ![c] = [Idle EXCEPT !.pc = pc, !.req = auth.req,
                                                !.user = auth.user]]
  /\ resp' = Pending

\* POST /auth/enable-2fa up to `await user.update({ two_factor_secret })`
EnableRead(c, bearer, secret) ==
  LET auth == authenticateToken([BearerReq("enable-2fa", bearer, "none")
                                   EXCEPT !.secret = secret], users, blacklist, now)
  IN
  /\ calls[c].pc = "idle"
  /\ secret \in generateTwoFactorSecret
  /\ IF ~auth.next THEN Answered(c, auth)
     ELSE IF users[auth.user].two_factor_enabled
     THEN Answered(c, [auth EXCEPT !.status = 400,
                         !.message = "Two-factor authentication is already enabled"])
     ELSE Awaits(c, "two_factor_secret", auth)
  /\ UNCHANGED <<users, rateKeys, blacklist, sessions, now, issued, revoked,
                 appointments, patients, staff, client>>

EnableUpdate(c) ==
  /\ calls[c].pc = "two_factor_secret"
  /\ users' = [users EXCEPT ![calls[c].user].two_factor_secret = calls[c].req.secret]
  /\ Answered(c, [About(Reply(calls[c].req, 200,
                     "Scan QR code with your authenticator app and verify to enable 2FA"),
                     users, calls[c].user) EXCEPT !.next = TRUE])
  /\ UNCHANGED <<rateKeys, blacklist, sessions, now, issued, revoked, appointments, patients, staff, client>>

\* POST /auth/verify-2fa-setup up to `await user.update({ two_factor_enabled: true })`
VerifyRead(c, bearer, token) ==
  LET auth == authenticateToken([BearerReq("verify-2fa-setup", bearer, "none")
                                   EXCEPT !.code = token], users, blacklist, now)
      user == users[auth.user]
  IN
  /\ calls[c].pc = "idle"
  /\ IF ~auth.next THEN Answered(c, auth)
     ELSE IF token.digits # twoFactorTokenLen
     THEN Answered(c, [auth EXCEPT !.status = 400, !.message = "Validation failed"])
     ELSE IF user.two_factor_secret = Null
     THEN Answered(c, [auth EXCEPT !.status = 400,
                         !.message = "Two-factor authentication setup not initiated"])
     ELSE IF ~verifyTwoFactorToken(token, user.two_factor_secret, now)
     THEN Answered(c, [auth EXCEPT !.status = 401, !.message = "Invalid verification code"])
     ELSE Awaits(c, "two_factor_enabled", auth)
  /\ UNCHANGED <<users, rateKeys, blacklist, sessions, now, issued, revoked,
                 appointments, patients, staff, client>>

VerifyUpdate(c) ==
  /\ calls[c].pc = "two_factor_enabled"
  /\ users' = [users EXCEPT ![calls[c].user].two_factor_enabled = TRUE]
  /\ Answered(c, Logged([About(Reply(calls[c].req, 200,
                            "Two-factor authentication enabled successfully"),
                            users, calls[c].user) EXCEPT !.next = TRUE],
                        {Event("2fa_enabled", calls[c].user)}))
  /\ UNCHANGED <<rateKeys, blacklist, sessions, now, issued, revoked, appointments, patients, staff, client>>

\* POST /auth/disable-2fa up to `await user.update({ two_factor_enabled: false,
\* two_factor_secret: null })`
DisableRead(c, bearer, password) ==
  LET auth == authenticateToken([BearerReq("disable-2fa", bearer, "none")
                                   EXCEPT !.password = password], users, blacklist, now)
  IN
  /\ calls[c].pc = "idle"
  /\ IF ~auth.next THEN Answered(c, auth)
     ELSE IF password = ""
     THEN Answered(c, [auth EXCEPT !.status = 400, !.message = "Validation failed"])
     ELSE IF ~verifyPassword(password, users[auth.user].password_hash)
     THEN Answered(c, [auth EXCEPT !.status = 401, !.message = "Invalid password"])
     ELSE Awaits(c, "two_factor_cleared", auth)
  /\ UNCHANGED <<users, rateKeys, blacklist, sessions, now, issued, revoked,
                 appointments, patients, staff, client>>

DisableUpdate(c) ==
  /\ calls[c].pc = "two_factor_cleared"
  /\ users' = [users EXCEPT ![calls[c].user].two_factor_enabled = FALSE,
                            ![calls[c].user].two_factor_secret = Null]
  /\ Answered(c, Logged([About(Reply(calls[c].req, 200,
                            "Two-factor authentication disabled successfully"),
                            users, calls[c].user) EXCEPT !.next = TRUE],
                        {Event("2fa_disabled", calls[c].user)}))
  /\ UNCHANGED <<rateKeys, blacklist, sessions, now, issued, revoked, appointments, patients, staff, client>>

(***************************************************************************)
(* SpecEnrolmentConcurrent: one account logs in; two callers send its      *)
(* enrolment requests, interleaved at the awaited writes.                  *)
(***************************************************************************)
NextEnrolmentConcurrent ==
  \/ \E code \in {NoCode} \cup {Totp(s, now) : s \in Secrets} :
       Login("ip1", EmailOf("u1"), PasswordOf("u1"), code, "none")
  \/ \E c \in Callers, bearer \in Bearers, secret \in generateTwoFactorSecret :
       EnableRead(c, bearer, secret)
  \/ \E c \in Callers : EnableUpdate(c)
  \/ \E c \in Callers, bearer \in Bearers, token \in SetupCodes : VerifyRead(c, bearer, token)
  \/ \E c \in Callers : VerifyUpdate(c)
  \/ \E c \in Callers, bearer \in Bearers, password \in Passwords \cup {""} :
       DisableRead(c, bearer, password)
  \/ \E c \in Callers : DisableUpdate(c)

SpecEnrolmentConcurrent == InitSession /\ [][NextEnrolmentConcurrent]_vars

\* C22: in every reachable state, also those reached by interleaving verify-2fa-setup
\* with disable-2fa or enable-2fa on one account, an account with two_factor_enabled
\* has a two_factor_secret, so login has a secret to check the code against.
C22_EnabledHasSecret ==
  \A u \in UserIds : users[u].two_factor_enabled => users[u].two_factor_secret # Null

(***************************************************************************)
(* POST /api/opd/appointments when requests are handled concurrently.  A   *)
(* caller runs the middleware and the handler up to the availability       *)
(* query, then awaits generateAppointmentNumber's count, then awaits       *)
(* OPDAppointment.create, which the UNIQUE constraint on                   *)
(* appointment_number can reject.                                          *)
(***************************************************************************)
InFlight == {c \in Callers : calls[c].pc # "idle"}

\* the request arrives: authenticateToken, authorize, validation, the patient, the
\* doctor, and the availability query; a row is kept free for each request in flight
BookCheck(c, bearer, patient_id, doctor_id, date, time) ==
  LET req == [BearerReq("appointment-book", bearer, "none")
                EXCEPT !.patient_id = patient_id, !.doctor_id = doctor_id,
                       !.appointment_date = date, !.appointment_time = time]
      auth == Guarded(req, AllStaff, "/api/opd/appointments")
  IN
  /\ calls[c].pc = "idle"
  /\ Cardinality(Stored(appointments, NoAppointment)) + Cardinality(InFlight)
       < Cardinality(AppointmentIds)
  /\ IF ~auth.next THEN Answered(c, auth)
     ELSE IF time \notin Times
     THEN Answered(c, [auth EXCEPT !.status = 400, !.message = "Validation failed"])
     ELSE IF patient_id \notin Stored(patients, NoPatient)
     THEN Answered(c, [auth EXCEPT !.status = 404, !.message = "Patient not found"])
     ELSE IF doctor_id \notin Stored(staff, NoStaff)
     THEN Answered(c, [auth EXCEPT !.status = 404, !.message = "Doctor not found"])
     ELSE IF Holding(appointments, doctor_id, date, time) # {}
     THEN Answered(c, [auth EXCEPT !.status = 409, !.message = "Time slot not available"])
     ELSE Awaits(c, "count", auth)
  /\ UNCHANGED <<users, rateKeys, blacklist, sessions, now, issued, revoked,
                 appointments, patients, staff, client>>

\* generateAppointmentNumber: await OPDAppointment.count
BookCount(c) ==
  /\ calls[c].pc = "count"
  /\ calls' = [calls EXCEPT
                 ![c].pc = "create",
                 ![c].appointmentNumber = generateAppointmentNumber(appointments, now)]
  /\ resp' = Pending
  /\ UNCHANGED <<users, rateKeys, blacklist, sessions, now, issued, revoked,
                 appointments, patients, staff, client>>

\* await OPDAppointment.create: the insert, or the unique violation that the catch
\* block answers with 500
BookCreate(c) ==
  LET r == calls[c].req
      number == calls[c].appointmentNumber
      taken == \E id \in Stored(appointments, NoAppointment) :
                 appointments[id].appointment_number = number
      reply(status, message) ==
        [About(Reply(r, status, message), users, calls[c].user) EXCEPT !.next = TRUE]
  IN
  /\ calls[c].pc = "create"
  /\ IF taken
     THEN /\ appointments' = appointments
          /\ Answered(c, reply(500, "Failed to book appointment"))
     ELSE /\ appointments' = [appointments EXCEPT ![NewId(appointments, NoAppointment)] =
                                [appointment_number |-> number,
                                 patient_id |-> r.patient_id, doctor_id |-> r.doctor_id,
                                 appointment_date |-> r.appointment_date,
                                 appointment_time |-> r.appointment_time,
                                 status |-> "scheduled"]]
          /\ Answered(c, Logged(reply(201, "Appointment booked successfully"),
                                {Event("opd_appointment_booked", calls[c].user)}))
  /\ UNCHANGED <<users, rateKeys, blacklist, sessions, now, issued, revoked, patients, staff, client>>

(***************************************************************************)
(* SpecOpdConcurrent: a doctor logs in; two callers send booking requests, *)
(* interleaved at the awaits.                                              *)
(***************************************************************************)
NextOpdConcurrent ==
  \/ Login("ip1", EmailOf("u1"), PasswordOf("u1"), NoCode, "none")
  \/ \E c \in Callers, bearer \in Bearers, b \in BookShapes :
       BookCheck(c, bearer, b[1], b[2], b[3], b[4])
  \/ \E c \in Callers : BookCount(c)
  \/ \E c \in Callers : BookCreate(c)

SpecOpdConcurrent == InitOpd /\ [][NextOpdConcurrent]_vars

\* C21: of two concurrent booking requests for the same doctor, date and time at most
\* one is answered 201 and stored: a booking is answered 201 only when no stored
\* appointment that is neither cancelled nor no_show holds its slot.
C21_ConcurrentBookingOneWins ==
  [][(resp'.req.op = "appointment-book" /\ resp'.status = 201)
       => ~\E a \in AppointmentIds :
             /\ appointments[a].status \notin {Null, "cancelled", "no_show"}
             /\ appointments[a].doctor_id = resp'.req.doctor_id
             /\ appointments[a].appointment_date = resp'.req.appointment_date
             /\ appointments[a].appointment_time = resp'.req.appointment_time]_vars

\* C27: every stored appointment has an appointment_number that no other stored
\* appointment has, and no booking fails because of its number, also when two
\* bookings for different slots generate their numbers concurrently.
C27_AppointmentNumbersUnique ==
  /\ \A a, b \in AppointmentIds :
       (a # b /\ appointments[a] # NoAppointment /\ appointments[b] # NoAppointment)
         => appointments[a].appointment_number # appointments[b].appointment_number
  /\ resp.req.op = "appointment-book" => resp.status # 500

(***************************************************************************)
(* POST /auth/register: authenticateToken, then the handler, which checks  *)
(* the caller's role itself before it looks at the validation result.      *)
(***************************************************************************)
UserRows == UserIds \cup {"u3"}

Roles ==
  {"admin", "doctor", "nurse", "receptionist", "lab_technician", "pharmacist",
   "radiologist", "accountant", "hr_manager", "housekeeping", "security"}

registerPasswordLen == 8

\* of the passwords that clients send, those with a lowercase letter, an uppercase
\* letter, a digit and a special character
MixedPasswords == {"Newdoc#33"}

validRegisterBody(r) ==
  /\ Len(r.password) >= registerPasswordLen
  /\ r.password \in MixedPasswords
  /\ r.role \in Roles
  /\ Len(r.employee_id) >= 3
  /\ Len(r.employee_id) <= 20

register(auth, us, stf, t) ==
  LET r == auth.req
      same == [users |-> us, staff |-> stf]
      user == NewId(us, NoAccount)
  IN
  IF ~auth.next THEN [resp |-> auth] @@ same
  ELSE IF us[auth.user].role # "admin"
  THEN [resp |-> [auth EXCEPT !.status = 403, !.message = "Admin access required"]] @@ same
  ELSE IF ~validRegisterBody(r)
  THEN [resp |-> [auth EXCEPT !.status = 400, !.message = "Validation failed"]] @@ same
  ELSE IF \E u \in DOMAIN us : us[u].email = r.email
  THEN [resp |-> [auth EXCEPT !.status = 409,
                              !.message = "User with this email already exists"]] @@ same
  ELSE IF \E d \in DOMAIN stf : stf[d].employee_id = r.employee_id
  THEN [resp |-> [auth EXCEPT !.status = 409,
                              !.message = "Employee ID already exists"]] @@ same
  ELSE [resp |-> Logged([auth EXCEPT !.status = 201,
                                     !.message = "User registered successfully"],
                        {Event("user_registered", user)}),
        users |-> [us EXCEPT ![user] =
                     [NoAccount EXCEPT !.email = r.email,
                                       !.password_hash = hashPassword(r.password),
                                       !.role = r.role, !.is_active = TRUE]],
        staff |-> [stf EXCEPT ![NewId(stf, NoStaff)] =
                     [user_id |-> user, employee_id |-> r.employee_id]]]

\* registration is possible while both tables have a free row
Register(bearer, email, password, role, employee_id) ==
  LET req == [BearerReq("register", bearer, "none")
                EXCEPT !.email = email, !.password = password, !.role = role,
                       !.employee_id = employee_id]
      out == register(authenticateToken(req, users, blacklist, now), users, staff, now)
  IN
  /\ \E u \in DOMAIN users : users[u] = NoAccount
  /\ \E d \in DOMAIN staff : staff[d] = NoStaff
  /\ resp' = out.resp
  /\ users' = out.users
  /\ staff' = out.staff
  /\ UNCHANGED <<rateKeys, blacklist, sessions, now, issued, revoked, appointments,
                 patients, calls, client>>

(***************************************************************************)
(* GET /api/opd/appointments, /appointments/:id and /appointments/today.   *)
(* data is the set of appointments that the response carries.  The query   *)
(* filters other than doctor_id and the paging only narrow the list.       *)
(***************************************************************************)
\* Staff.findOne({ where: { user_id } })
staffOf(stf, userId) ==
  IF \E d \in DOMAIN stf : stf[d].user_id = userId
  THEN CHOOSE d \in DOMAIN stf : stf[d].user_id = userId
  ELSE Null

listAppointments(auth, apps, stf, us) ==
  LET own == staffOf(stf, auth.user)
      doctor_id == IF us[auth.user].role = "doctor" /\ own # Null THEN own
                   ELSE auth.req.doctor_id
  IN
  IF ~auth.next THEN auth
  ELSE [auth EXCEPT !.data = {a \in Stored(apps, NoAppointment) :
                                doctor_id = Null \/ apps[a].doctor_id = doctor_id}]

getAppointment(auth, apps, stf, us) ==
  LET id == auth.req.id
      own == staffOf(stf, auth.user)
  IN
  IF ~auth.next THEN auth
  ELSE IF id \notin AppointmentIds
  THEN [auth EXCEPT !.status = 400, !.message = "Validation failed"]
  ELSE IF apps[id] = NoAppointment
  THEN [auth EXCEPT !.status = 404, !.message = "Appointment not found"]
  ELSE IF us[auth.user].role = "doctor" /\ own # Null /\ apps[id].doctor_id # own
  THEN [auth EXCEPT !.status = 403, !.message = "Access denied"]
  ELSE [auth EXCEPT !.data = {id}]

ListAppointments(bearer, doctor_id) ==
  LET req == [BearerReq("appointment-list", bearer, "none") EXCEPT !.doctor_id = doctor_id]
  IN
  /\ resp' = listAppointments(Guarded(req, AllStaff, "/api/opd/appointments"),
                              appointments, staff, users)
  /\ UNCHANGED <<users, rateKeys, blacklist, sessions, now, issued, revoked,
                 appointments, patients, calls, staff, client>>

GetAppointment(bearer, id) ==
  LET req == [BearerReq("appointment-get", bearer, "none") EXCEPT !.id = id]
  IN
  /\ resp' = getAppointment(Guarded(req, AllStaff, "/api/opd/appointments/:id"),
                            appointments, staff, users)
  /\ UNCHANGED <<users, rateKeys, blacklist, sessions, now, issued, revoked,
                 appointments, patients, calls, staff, client>>

\* GET /appointments/today: the router tries its routes in the order they were added,
\* and '/appointments/:id' was added before '/appointments/today', so the request is
\* handled by the get-by-id route with id = 'today'
TodayAppointments(bearer) ==
  LET req == [BearerReq("appointment-today", bearer, "none") EXCEPT !.id = "today"]
  IN
  /\ resp' = getAppointment(Guarded(req, AllStaff, "/api/opd/appointments/:id"),
                            appointments, staff, users)
  /\ UNCHANGED <<users, rateKeys, blacklist, sessions, now, issued, revoked,
                 appointments, patients, calls, staff, client>>

(***************************************************************************)
(* SpecStaff: a doctor and an admin log in; the admin registers a doctor   *)
(* or a pharmacist, who logs in too; all read the appointments.  One       *)
(* appointment with the seeded doctor is booked.  The seeded staff row is  *)
(* linked to the doctor's account or, user_id being nullable, to none.     *)
(***************************************************************************)
InitStaffTable ==
  /\ users = [u \in UserRows |-> IF u \in UserIds THEN InitUser(u) ELSE NoAccount]
  /\ \E user_id \in {"u1", Null} :
       staff = [d \in StaffRows |->
                  IF d \in StaffIds THEN [user_id |-> user_id, employee_id |-> "EMP001"]
                  ELSE NoStaff]
  /\ InitStores
  /\ appointments = [a \in AppointmentIds |->
                       IF a = "a1"
                       THEN [appointment_number |-> [day |-> 0, seq |-> 1],
                             patient_id |-> "p1", doctor_id |-> "d1",
                             appointment_date |-> "2026-03-02",
                             appointment_time |-> "09:00", status |-> "scheduled"]
                       ELSE NoAppointment]
  /\ patients = [p \in PatientIds |->
                   IF p = "p1"
                   THEN [patient_id |-> 1, phone |-> "9000000001", is_active |-> TRUE]
                   ELSE NoPatient]
  /\ InitCalls
  /\ InitClient

NextStaff ==
  \/ \E account \in {<<EmailOf(u), PasswordOf(u)>> : u \in UserIds}
                      \cup {<<"new@h.com", "Newdoc#33">>} :
       Login("ip1", account[1], account[2], NoCode, "none")
  \/ \E bearer \in Bearers, email \in {"new@h.com", "doc@h.com"},
        password \in {"Newdoc#33", "doctor#1"}, role \in {"doctor", "pharmacist"},
        employee_id \in {"EMP001", "EMP002"} :
       Register(bearer, email, password, role, employee_id)
  \/ \E bearer \in Bearers, doctor_id \in StaffRows \cup {Null} :
       ListAppointments(bearer, doctor_id)
  \/ \E bearer \in Bearers, id \in AppointmentIds : GetAppointment(bearer, id)
  \/ \E bearer \in Bearers : TodayAppointments(bearer)

SpecStaff == InitStaffTable /\ [][NextStaff]_vars

\* the roles that each role-restricted route admits
PermittedRoles(op) ==
  CASE op = "register" -> {"admin"}
    [] op \in {"appointment-list", "appointment-get", "appointment-today"} ->
         {"admin", "receptionist", "doctor", "nurse"}
    [] OTHER -> RequiredRoles(op)

RoleRestrictedOps ==
  GuardedOps \cup {"register", "appointment-list", "appointment-get", "appointment-today"}

\* C24: every request answered 403 because the role of its authenticated caller is
\* not one the endpoint admits writes an audit record that names the caller, the
\* required roles and the endpoint; on the routes behind authorize(...) and on the
\* admin-only POST /auth/register alike.
C24_ForbiddenIsAudited ==
  [][(/\ resp'.req.op \in RoleRestrictedOps
      /\ Authenticated(resp'.req)
      /\ users[resp'.req.bearer.userId].role \notin PermittedRoles(resp'.req.op)
      /\ resp'.status = 403)
       => \E e \in resp'.audit :
            /\ e.userId = resp'.req.bearer.userId
            /\ e.requiredRoles = PermittedRoles(resp'.req.op)
            /\ e.endpoint # Null]_vars

\* C28: a read of the appointments (list, today's list, get by id) by a user whose
\* role is doctor returns only appointments whose doctor_id is a staff row linked to
\* that user, whatever the staff table holds.
C28_DoctorReadsOwnOnly ==
  [][(/\ resp'.req.op \in {"appointment-list", "appointment-get", "appointment-today"}
      /\ Authenticated(resp'.req)
      /\ users[resp'.req.bearer.userId].role = "doctor")
       => \A a \in resp'.data :
            /\ appointments[a].doctor_id \in StaffRows
            /\ staff[appointments[a].doctor_id].user_id = resp'.req.bearer.userId]_vars

(***************************************************************************)
(* SpecClient: the client alone; every request it sends may succeed or     *)
(* fail.  SpecClientFair: every request in flight settles.                 *)
(***************************************************************************)
NextClient ==
  \/ Mount
  \/ \E thunk \in GuestThunks \cup MemberThunks : Dispatch(thunk)
  \/ \E payload \in {"twoFactorRequired", "token", "data"} : Fulfilled(payload)
  \/ Rejected
  \/ CheckLockoutExpiry
  \/ TickDay

SpecClient == InitSession /\ [][NextClient]_vars

SpecClientFair == SpecClient /\ WF_vars(Settle)

\* C30: the slice's loading flag is false whenever no auth request is in flight: once
\* a thunk has settled, fulfilled or rejected, loading returns to false, so the App
\* does not stay on its loading screen after the request has finished.
C30_LoadingReturnsToFalse ==
  \A thunk \in {"login", "logout", "checkAuthStatus", "changePassword", "enableTwoFactor",
                "verifyTwoFactorSetup", "disableTwoFactor", "updateProfile"} :
    (client.inFlight = "none" /\ client.settled = thunk) ~> ~client.state.loading

====
